---- MODULE Spec2Model ----
(***************************************************************************)
(* Model of the scrape orchestration core of SbmchPro:                     *)
(*   - the Puppeteer browser pool (browserPool.js: acquireBrowser,         *)
(*     releaseBrowser, cleanupIdleBrowsers, recycleBrowser, processQueue,  *)
(*     withBrowser),                                                       *)
(*   - scrapeDatewiseAttendance with its cache and its direct fallback,    *)
(*   - the POST /api/attendance/datewise route with its 25 s timeout.      *)
(*                                                                         *)
(* Node.js runs one callback at a time.  A step of the model is one run of *)
(* JavaScript between two points where the code waits for the outside      *)
(* world (puppeteer.launch, browser.close, a page operation, a timer).     *)
(* An await on a promise that is already settled only defers to the        *)
(* microtask queue, which is drained before any other callback runs, so    *)
(* the code on both sides of such an await belongs to the same step.       *)
(***************************************************************************)
EXTENDS Integers, Sequences, FiniteSets, TLC

VARIABLES
    browserPool,          \* const browserPool = []  : sequence of browserInfo
    activeBrowsers,       \* const activeBrowsers = new Set() : set of ids
    queue,                \* let queue = []          : sequence of task ids
    processingQueue,      \* let processingQueue = false
    consecutiveFailures,  \* local of processQueue
    dpc,                  \* where the processQueue loop is waiting
    dToClose,             \* browsersToClose of the drainer's acquireBrowser
    sweepToClose,         \* browsersToClose of the periodic sweep
    closing,              \* browsers with a recycleBrowser() pending after a task error
    nextId,               \* number of browsers created so far (ids are 1..nextId)
    now,                  \* Date.now(), in milliseconds
    nextTask,             \* number of withBrowser calls made so far
    kind,                 \* who called withBrowser: a "raw" caller, or "scrape"
                          \* for scrapeDatewiseAttendance called by the route
    pc,                   \* position of each withBrowser call
    lease,                \* browser handed to the task by acquireBrowser (0: none)
    toClose,              \* browsersToClose of the task's own acquireBrowser
    result,               \* how the withBrowser promise settled
    relCount,             \* number of releaseBrowser calls made for the task's lease
    dispatched,           \* tasks that processQueue took from the queue and started
    req,                  \* { username, dateToFetch } of each datewise request
    cache,                \* const cache = new Map() : key -> { data, timestamp }
    timer,                \* the setTimeout of the route's timeoutPromise
    status,               \* HTTP status the route has sent (0: no response yet)
    sres,                 \* how the scrapeDatewiseAttendance promise settled
    scrapes,              \* login/fetch sequences the request has started upstream
    directTries,          \* calls of scrapeWithDirectPuppeteer made for the request
    directOpen,           \* the fallback's own browser is open
    startedAt,            \* time at which the request called scrapeDatewiseAttendance
    seenTs,               \* timestamp of the cache entry of the request's key at
                          \* that time (-1: there was none)
    blocked,              \* blocked[t] # 0: t was queued while every browser was at
                          \* its lease cap, blocked[t] browsers had been launched by
                          \* then, and no releaseBrowser has lowered a count below
                          \* the cap since
    fpc,                  \* position of the fetchDatewiseAttendance call
    requested,            \* the dateToFetch the call was given
    posted,               \* the POSTs the call has issued: url and body of each
    attendancePageHtml,   \* the attendance page the call fetched first
    possibleEndpoints,    \* const possibleEndpoints : the candidate URLs, in order
    payload,              \* const payload = new URLSearchParams() : its field names
    triedEndpoints,       \* let triedEndpoints = [] : candidates POSTed to so far
    lastError,            \* let lastError = null
    submitted,            \* number of form submissions the call has made
    lastResponse,         \* the response the call handled last
    fetched,              \* how the fetchDatewiseAttendance promise settled
    cpc,                  \* position of the attendance scrape job for one table row
    cells,                \* the cells of the row: their number, the percentage
                          \* text and the session-ratio text
    attendanceRows,       \* what parseAttendanceRows pushed for the row
    processed,            \* what the job's map made of it
    rpc,                  \* position of parseDatewiseAttendanceRows at one row
    tr,                   \* the <tr>: whether it is a header row, and the text
                          \* and the markup of each <td>
    datewiseRow,          \* the row pushed for it
    ppc,                  \* position of parseDatewiseAttendanceRows at a document
    parsedHtml,           \* what html was: undefined, null, '' or a document
    parsedDoc,            \* the document
    parsedRows,           \* what the call returned
    shutPc,               \* position of cleanup(), the pool's part of shutdown
    shutClosing,          \* the browsers whose close() cleanup() awaits
    lnow,                 \* Date.now() as the login route reads it
    lastLoginAt,          \* const lastLoginAt = {} : username -> timestamp, -1 unset
    scrapingStatus,       \* const scrapingStatus = {} : username -> the status object,
                          \* named by the login request that made it, 0 unset
    statusRunning,        \* status.running of the object each login request made
    lpc,                  \* position of each POST /api/login request and of its job
    loginUser,            \* req.body.username of each login request
    jobRows,              \* processed.length of each job
    jobError,             \* whether the job's catch block ran
    dbAttendance,         \* table attendance: rows per username
    latestSnapshot,       \* table latest_snapshot: "none", or the entry's attendance_id
    gpc,                  \* position of the GET /api/attendance request
    getReq,               \* its user, what it read and what it answered
    predicted,            \* the record the leave predictor of the dashboard made
    pollPc,               \* position of fetchAttendance of the hook useAttendance
    attempt,              \* let attempt = 0
    lastErr,              \* let lastErr = null : the message of the last error
    earlyNetworkFail,     \* let earlyNetworkFail = false
    waitedMs,             \* the backoff the call has waited in all
    fetches,              \* requests to /api/attendance the call has made
    loading,              \* state loading of the hook
    isFallback,           \* state isFallback of the hook
    hookAttendance,       \* state attendance of the hook
    pollReturn            \* what the call returned

poolVars == << browserPool, activeBrowsers, queue, processingQueue,
           consecutiveFailures, dpc, dToClose, sweepToClose, closing, nextId,
           now, nextTask, kind, pc, lease, toClose, result, relCount,
           dispatched, blocked, req, cache, timer, status, sres, scrapes,
           directTries, directOpen, startedAt, seenTs >>

fetchVars == << fpc, requested, posted, attendancePageHtml, possibleEndpoints, payload,
                triedEndpoints, lastError, submitted, lastResponse, fetched >>

calcVars == << cpc, cells, attendanceRows, processed >>

rowVars == << rpc, tr, datewiseRow >>

docVars == << ppc, parsedHtml, parsedDoc, parsedRows >>

shutVars == << shutPc, shutClosing >>

loginVars == << lnow, lastLoginAt, scrapingStatus, statusRunning, lpc, loginUser,
                jobRows, jobError, dbAttendance, latestSnapshot, gpc, getReq >>

frontVars == << predicted, pollPc, attempt, lastErr, earlyNetworkFail, waitedMs, fetches,
                loading, isFallback, hookAttendance, pollReturn >>

appVars == << docVars, shutVars, loginVars, frontVars >>

vars == << poolVars, fetchVars, calcVars, rowVars, appVars >>

----------------------------------------------------------------------------
(***************************************************************************)
(* The attendance scrape job for one row of the attendance table:          *)
(* parseAttendanceRows reads the row, the job's map adds the derived       *)
(* numbers with computePercent, computeRequired and computeCanMiss.        *)
(* Percentages are kept in hundredths of a percent, as toFixed(2) leaves   *)
(* them; a percentage text is given in thousandths.                        *)
(***************************************************************************)

MaxCount == 12       \* session counts 0..MaxCount in a ratio text
BigCount == 668      \* a session count beyond the loop cap of computeRequired
LoopCap == 2000      \* if (r > 2000) return r

Counts == (0..MaxCount) \cup { 20, 30, 40, BigCount }

\* String.prototype.match found nothing
NoMatch == [ match |-> FALSE, a |-> 0, b |-> 0 ]

\* a percentage text: no number in it, or the number a (in thousandths)
PercentTexts ==
    { NoMatch } \cup { [ match |-> TRUE, a |-> n, b |-> 0 ] :
                          n \in { 0, 74994, 75000, 99995, 120500 } }

\* a ratio text: no 'a / b' in it, or the two numbers
RatioTexts ==
    { NoMatch } \cup { [ match |-> TRUE, a |-> n, b |-> m ] : n \in Counts, m \in Counts }

Cells == [ tds : 2..3, percentText : PercentTexts, presentText : RatioTexts ]

NoRow == [ present |-> 0, total |-> 0, absent |-> 0, percent |-> 0, pushed |-> FALSE ]

NoRecord ==
    [ present |-> 0, total |-> 0, absent |-> 0, percent |-> 0, margin |-> 0,
      required |-> 0, made |-> FALSE ]

CalcIdle ==
    /\ cpc = "idle"
    /\ cells = [ tds |-> 0, percentText |-> NoMatch, presentText |-> NoMatch ]
    /\ attendanceRows = NoRow
    /\ processed = NoRecord

\* +x.toFixed(2), from thousandths to hundredths
ToFixed2(thousandths) == (thousandths + 5) \div 10

\* +((present / total) * 100).toFixed(2), in hundredths
RatioPercent(present, total) == (2 * 10000 * present + total) \div (2 * total)

computePercent(present, total) ==
    IF total = 0 THEN 0 ELSE RatioPercent(present, total)

\* ((present + r) / (total + r)) * 100 >= 75
ReachesThreshold(present, total, n) == 100 * (present + n) >= 75 * (total + n)

\* The loop tries r = 0, 1, ... and returns the first r that reaches 75%,
\* and returns r once r has passed the cap.
computeRequired(present, total) ==
    IF total = 0 THEN 0
    ELSE IF 100 * present >= 75 * total THEN 0
    ELSE LET reaching == { n \in 0..LoopCap : ReachesThreshold(present, total, n) }
         IN  IF reaching # {}
             THEN CHOOSE n \in reaching : \A m \in reaching : n <= m
             ELSE LoopCap + 1

\* computeCanMiss with Math.ceil in place of Math.floor
computeCanMissCeil(present, total) ==
    IF present < 0 \/ total <= 0 THEN 0
    ELSE LET allowed == -((75 * total - 100 * present) \div 75)
         IN  IF allowed > 0 THEN allowed ELSE 0

\* Math.max(0, Math.floor(present / 0.75 - total))
computeCanMiss(present, total) ==
    IF present < 0 \/ total <= 0 THEN 0
    ELSE LET allowed == (100 * present - 75 * total) \div 75
         IN  IF allowed > 0 THEN allowed ELSE 0

\* the row object parseAttendanceRows pushes for a row of three cells
ParsedRow(c) ==
    LET ratioMatch == c.presentText
        present == IF ratioMatch.match THEN ratioMatch.a ELSE 0
        total == IF ratioMatch.match THEN ratioMatch.b ELSE 0
    IN  [ present |-> present,
          total |-> total,
          absent |-> IF total >= present THEN total - present ELSE 0,
          percent |-> IF c.percentText.match THEN ToFixed2(c.percentText.a)
                      ELSE IF total # 0 THEN RatioPercent(present, total)
                      ELSE 0,
          pushed |-> TRUE ]

\* The result page arrives and parseAttendanceRows reads the row: a row of
\* fewer than three cells is skipped.
ParseAttendanceRows(c) ==
    /\ cpc = "idle"
    /\ cells' = c
    /\ attendanceRows' = IF c.tds < 3 THEN NoRow ELSE ParsedRow(c)
    /\ cpc' = IF c.tds < 3 THEN "done" ELSE "parsed"
    /\ UNCHANGED processed
    /\ UNCHANGED << poolVars, fetchVars, rowVars, appVars >>

\* the map over result.attendanceRows
Processed ==
    /\ cpc = "parsed"
    /\ cpc' = "done"
    /\ processed' =
          [ present |-> attendanceRows.present,
            total |-> attendanceRows.total,
            absent |-> attendanceRows.absent,
            percent |-> attendanceRows.percent,
            margin |-> computeCanMiss(attendanceRows.present, attendanceRows.total),
            required |-> computeRequired(attendanceRows.present, attendanceRows.total),
            made |-> TRUE ]
    /\ UNCHANGED << cells, attendanceRows >>
    /\ UNCHANGED << poolVars, fetchVars, rowVars, appVars >>

----------------------------------------------------------------------------
(***************************************************************************)
(* The dashboard.  The leave predictor of App.jsx takes a record the       *)
(* server made and computes its numbers again after some sessions of       *)
(* leave, with the closed form computeRequiredSessions.  The hook          *)
(* useAttendance polls GET /api/attendance in fetchAttendance: every       *)
(* answer of the server and every failure of fetch is an input.  Times     *)
(* are in milliseconds.                                                    *)
(***************************************************************************)

MaxLeave == 2         \* sessions of leave entered for a subject
MAX_TRIES == 10       \* const MAX_TRIES = 10
INTERVAL_MS == 2000   \* const INTERVAL_MS = 2000

Leaves == 0..MaxLeave

NoPrediction == [ present |-> 0, total |-> 0, required |-> 0, leave |-> 0, made |-> FALSE ]

\* if ((total > 0 && (present / total) * 100 >= 75) || (total === 0 && present >= 0)) return 0
\* return Math.max(0, Math.ceil(3 * total - 4 * present))
computeRequiredSessions(present, total) ==
    IF (total > 0 /\ 100 * present >= 75 * total) \/ (total = 0 /\ present >= 0)
    THEN 0
    ELSE LET r == 3 * total - 4 * present
         IN  IF r > 0 THEN r ELSE 0

\* the map of the predictor over memoizedAttendance, at one item
Predict(leave) ==
    /\ cpc = "done"
    /\ processed.made
    /\ ~predicted.made
    /\ LET newPresent == processed.present
           newTotal == processed.total + leave
       IN  predicted' = [ present |-> newPresent,
                          total |-> newTotal,
                          required |-> computeRequiredSessions(newPresent, newTotal),
                          leave |-> leave,
                          made |-> TRUE ]
    /\ UNCHANGED << pollPc, attempt, lastErr, earlyNetworkFail, waitedMs, fetches,
                    loading, isFallback, hookAttendance, pollReturn >>
    /\ UNCHANGED << poolVars, fetchVars, calcVars, rowVars, docVars, shutVars, loginVars >>

\* what fetch('/api/attendance') does: it throws with a message, or there is
\* a response with a status and, for 200, a body (a body that is not JSON
\* makes resp.json() throw).  A row of the list carries the number required
\* or lacks it.
ThrowMessages == { "Failed to fetch", "NetworkError", "ERR_CONNECTION_REFUSED", "Load failed" }

Statuses == { 200, 202, 401, 402, 500 }

ServerRows ==
    { [ present |-> 1, total |-> 4, required |-> 8, hasRequired |-> TRUE ],
      [ present |-> 1, total |-> 4, required |-> 0, hasRequired |-> FALSE ] }

Bodies == { << >> } \cup { << s >> : s \in ServerRows }

Responses ==
    { [ threw |-> TRUE, message |-> m, status |-> 0, json |-> FALSE, list |-> << >> ] :
          m \in ThrowMessages }
    \cup { [ threw |-> FALSE, message |-> "", status |-> s, json |-> TRUE, list |-> << >> ] :
              s \in Statuses \ { 200 } }
    \cup { [ threw |-> FALSE, message |-> "", status |-> 200, json |-> TRUE, list |-> l ] :
              l \in Bodies }
    \cup { [ threw |-> FALSE, message |-> "", status |-> 200, json |-> FALSE, list |-> << >> ] }

\* msg.includes('Failed to fetch') || msg.includes('NetworkError') ||
\* msg.includes('ERR_CONNECTION_REFUSED')
ClearNetworkError(msg) ==
    msg \in { "Failed to fetch", "NetworkError", "ERR_CONNECTION_REFUSED" }

\* list.map(s => ({ ...s, percent, required, margin })), the number required
MappedRow(s) ==
    [ present |-> s.present,
      total |-> s.total,
      required |-> IF s.hasRequired THEN s.required
                   ELSE computeRequired(s.present, s.total) ]

FrontIdle ==
    /\ predicted = NoPrediction
    /\ pollPc = "idle"
    /\ attempt = 0
    /\ lastErr = "null"
    /\ earlyNetworkFail = FALSE
    /\ waitedMs = 0
    /\ fetches = 0
    /\ loading = FALSE
    /\ isFallback = FALSE
    /\ hookAttendance = << >>
    /\ pollReturn = "none"

frontKeeps == << poolVars, fetchVars, calcVars, rowVars, docVars, shutVars, loginVars,
                predicted >>

\* fetchAttendance(t) up to the first fetch: without a token it returns at
\* once; else the loop is entered, attempt++ and the request is sent
FetchAttendance(hasToken) ==
    /\ pollPc \in { "idle", "done" }
    /\ isFallback' = FALSE
    /\ lastErr' = "null"
    /\ earlyNetworkFail' = FALSE
    /\ waitedMs' = 0
    /\ IF hasToken
       THEN /\ loading' = TRUE
            /\ attempt' = 1
            /\ fetches' = 1
            /\ pollPc' = "fetching"
            /\ pollReturn' = "none"
       ELSE /\ loading' = FALSE
            /\ attempt' = 0
            /\ fetches' = 0
            /\ pollPc' = "done"
            /\ pollReturn' = "unauthorized"
    /\ UNCHANGED hookAttendance
    /\ UNCHANGED frontKeeps

\* if (!earlyNetworkFail && attempt < MAX_TRIES): the loop waits before the next attempt
BacksOffAlways(a) == TRUE

BacksOff(a) == a < MAX_TRIES

\* while (attempt < MAX_TRIES) { attempt++ ; fetch ... } and, after the loop,
\* setIsFallback(true) and the fetch of the sample
LoopTop ==
    IF attempt < MAX_TRIES
    THEN /\ attempt' = attempt + 1
         /\ fetches' = fetches + 1
         /\ pollPc' = "fetching"
         /\ UNCHANGED isFallback
    ELSE /\ pollPc' = "sample"
         /\ isFallback' = TRUE
         /\ UNCHANGED << attempt, fetches >>

\* the end of a pass of the loop that neither returned nor broke: the
\* backoff, or the next pass at once
NextPass(err) ==
    /\ lastErr' = err
    /\ IF BacksOff(attempt)
       THEN /\ pollPc' = "waiting"
            /\ UNCHANGED << attempt, fetches, isFallback >>
       ELSE LoopTop
    /\ UNCHANGED << earlyNetworkFail, waitedMs, loading, hookAttendance, pollReturn >>

\* the return of { unauthorized: true } at 401 and at 402
Unauthorized ==
    /\ loading' = FALSE
    /\ pollReturn' = "unauthorized"
    /\ pollPc' = "done"
    /\ UNCHANGED << attempt, lastErr, earlyNetworkFail, waitedMs, fetches,
                    isFallback, hookAttendance >>

\* the fetch of an attempt settles
Responded(resp) ==
    /\ pollPc = "fetching"
    /\ CASE resp.threw /\ ClearNetworkError(resp.message) ->
              /\ lastErr' = resp.message
              /\ earlyNetworkFail' = TRUE
              /\ pollPc' = "sample"
              /\ isFallback' = TRUE
              /\ UNCHANGED << attempt, waitedMs, fetches, loading, hookAttendance,
                              pollReturn >>
         [] resp.threw /\ ~ClearNetworkError(resp.message) -> NextPass(resp.message)
         [] ~resp.threw /\ resp.status = 202 -> NextPass("Attendance pending, retrying")
         [] ~resp.threw /\ resp.status \in { 401, 402 } -> Unauthorized
         [] ~resp.threw /\ resp.status \notin { 200, 202, 401, 402 } ->
              NextPass("Attendance fetch failed")
         [] ~resp.threw /\ resp.status = 200 /\ ~resp.json -> NextPass("SyntaxError")
         [] ~resp.threw /\ resp.status = 200 /\ resp.json /\ resp.list = << >> ->
              NextPass("Empty attendance, retrying")
         [] ~resp.threw /\ resp.status = 200 /\ resp.json /\ resp.list # << >> ->
              /\ hookAttendance' = [ i \in 1..Len(resp.list) |-> MappedRow(resp.list[i]) ]
              /\ loading' = FALSE
              /\ pollReturn' = "records"
              /\ pollPc' = "done"
              /\ UNCHANGED << attempt, lastErr, earlyNetworkFail, waitedMs, fetches,
                              isFallback >>
    /\ UNCHANGED frontKeeps

\* the timer of the backoff fires after attempt * INTERVAL_MS; the loop goes
\* round: attempt++ and the next request
BackoffElapsed ==
    /\ pollPc = "waiting"
    /\ waitedMs' = waitedMs + attempt * INTERVAL_MS
    /\ LoopTop
    /\ UNCHANGED << lastErr, earlyNetworkFail, loading, hookAttendance, pollReturn >>
    /\ UNCHANGED frontKeeps

\* fetch('/sampleAttendance.json') settles; finally { setLoading(false) }
SampleSettled(ok) ==
    /\ pollPc = "sample"
    /\ hookAttendance' = IF ok THEN << [ present |-> 3, total |-> 4, required |-> 0 ] >>
                         ELSE hookAttendance
    /\ loading' = FALSE
    /\ pollReturn' = "fallback"
    /\ pollPc' = "done"
    /\ UNCHANGED << attempt, lastErr, earlyNetworkFail, waitedMs, fetches, isFallback >>
    /\ UNCHANGED frontKeeps

----------------------------------------------------------------------------
(***************************************************************************)
(* parseDatewiseAttendanceRows for one <tr> of the result table.  Texts    *)
(* are taken from a small vocabulary; each test the code makes on a text   *)
(* (a regular expression, includes, length) is the set of the texts of     *)
(* the vocabulary that pass it.                                            *)
(***************************************************************************)

MaxCells == 5       \* cells in a row

SubjectTexts ==
    { "", "B", "Biochemistry", "ANATOMY", "ANATOMY PRACTICAL", "Subject Name",
      "--", "..", " Physiology " }

TimeTexts ==
    { "09:00-10:00", "09:00", "1/1", "Morning", "No of session Completed 1/1" }

StatusTexts ==
    { "", "P", "A", "-", "5", "Unknown", "Present", " Present ", "Absent",
      "Late", "80%", "40%" }

\* What the HTML of the status cell holds besides its text: nothing, a
\* <canvas>, a <div class="chart">, a bar with style="width:50%", or an
\* <img alt="Present">.
StatusMarkup == { "text", "canvas", "chart", "bar50", "iconPresent" }

Td(text, html) == [ text |-> text, html |-> html ]

\* the cells of the rows of n cells: subject, times, status, and empty cells after them
TrsOf(n) ==
    CASE n = 1 -> { << Td(s, "text") >> : s \in SubjectTexts }
      [] n = 2 -> { << Td(s, "text"), Td(a, m) >> :
                      s \in SubjectTexts, a \in StatusTexts, m \in StatusMarkup }
      [] n = 3 -> { << Td(s, "text"), Td(t, "text"), Td(a, m) >> :
                      s \in SubjectTexts, t \in TimeTexts,
                      a \in StatusTexts, m \in StatusMarkup }
      [] OTHER -> { << Td(s, "text"), Td(t, "text"), Td(u, "text"), Td(a, m) >>
                        \o [ i \in 1..(n - 4) |-> Td("", "text") ] :
                      s \in SubjectTexts, t \in TimeTexts, u \in TimeTexts,
                      a \in StatusTexts, m \in StatusMarkup }

Tr(th, tds) == [ th |-> th, tds |-> tds ]

NoTr == [ th |-> FALSE, tds |-> << >> ]

NoDatewiseRow ==
    [ subject |-> "", time_from |-> "", time_to |-> "", attendance |-> "",
      pushed |-> FALSE ]

RowsIdle ==
    /\ rpc = "idle"
    /\ tr = NoTr
    /\ datewiseRow = NoDatewiseRow

\* value.replace(/\s+/g, ' ').trim()
cleanText(value) ==
    CASE value = " Present " -> "Present"
      [] value = " Physiology " -> "Physiology"
      [] OTHER -> value

\* s.length < 2, for a cleaned text
ShorterThan2(s) == s \in { "", "B", "P", "A", "-", "5" }

\* s.match(/\d{1,2}:\d{2}/)
HasClock(s) == s \in { "09:00-10:00", "09:00" }

\* s.toLowerCase().includes('to')
IncludesTo(s) == FALSE

\* s.includes('-')
IncludesDash(s) == s \in { "09:00-10:00", "--", "-" }

\* s.match(/(\d{1,2}:\d{2})\s*(?:to|-|-)\s*(\d{1,2}:\d{2})/i): the two times
TimeMatch(s) == IF s = "09:00-10:00" THEN << "09:00", "10:00" >> ELSE << >>

\* s.match(/\d+\/\d+/)
HasRatio(s) == s \in { "1/1", "No of session Completed 1/1" }

\* s.includes('session') || s.includes('Completed')
NamesSession(s) == s = "No of session Completed 1/1"

\* `${sessionMatch[1]}/${sessionMatch[2]}`
SessionOf(s) == IF HasRatio(s) THEN "1/1" ELSE s

\* text.toLowerCase().includes(w), for the words the code looks for
TextIncludes(text, w) ==
    CASE w = "present" -> text \in { "Present", " Present " }
      [] w = "absent" -> text = "Absent"
      [] w = "p" -> text \in { "P", "Present", " Present " }
      [] w = "a" -> text \in { "A", "Absent", "Late" }
      [] w = "100%" -> FALSE
      [] w = "0%" -> text \in { "80%", "40%" }
      [] OTHER -> FALSE

\* the HTML of the cell includes w: in its markup or in its text
HtmlIncludes(td, w) ==
    \/ TextIncludes(td.text, w)
    \/ w = "present" /\ td.html = "iconPresent"
    \/ w = "0%" /\ td.html = "bar50"
    \/ w = "canvas" /\ td.html = "canvas"
    \/ w = "chart" /\ td.html = "chart"

\* text.match(/^\d+%$/) and parseInt(text)
IsPercent(text) == text \in { "80%", "40%" }

ParseInt(text) == CASE text = "80%" -> 80 [] text = "40%" -> 40 [] text = "5" -> 5 [] OTHER -> 0

\* text.trim()
Trim(text) == cleanText(text)

\* The status read from the HTML and the text of the status cell, when the
\* cleaned text is empty, shorter than two characters or 'Unknown'.
StatusFromCell(td) ==
    IF \/ HtmlIncludes(td, "present") \/ TextIncludes(td.text, "present")
       \/ TextIncludes(td.text, "p")
    THEN "Present"
    ELSE IF \/ HtmlIncludes(td, "absent") \/ TextIncludes(td.text, "absent")
            \/ TextIncludes(td.text, "a")
    THEN "Absent"
    ELSE IF \/ HtmlIncludes(td, "100%") \/ TextIncludes(td.text, "100%")
            \/ IsPercent(td.text) /\ ParseInt(td.text) >= 75
    THEN "Present"
    ELSE IF \/ HtmlIncludes(td, "0%") \/ TextIncludes(td.text, "0%")
            \/ IsPercent(td.text) /\ ParseInt(td.text) < 50
    THEN "Absent"
    ELSE IF HtmlIncludes(td, "canvas") \/ HtmlIncludes(td, "chart")
    THEN IF td.html = "canvas"
         THEN "Present"
         ELSE IF td.text # "" THEN td.text ELSE "Unknown"
    ELSE IF Trim(td.text) # "" THEN Trim(td.text) ELSE "Unknown"

\* if (!attendance || attendance.length < 2 || attendance === 'Unknown')
Status(attendance, td) ==
    IF attendance = "" \/ ShorterThan2(attendance) \/ attendance = "Unknown"
    THEN StatusFromCell(td)
    ELSE attendance

\* Columns with the middle cell of a three-cell row taken whole
ColumnsNoSplit(cellTexts) ==
    LET n == Len(cellTexts)
    IN  IF n >= 4
        THEN [ time_from |-> cleanText(cellTexts[2]), time_to |-> cleanText(cellTexts[3]),
               attendance |-> cleanText(cellTexts[4]) ]
        ELSE IF n = 3
        THEN [ time_from |-> cleanText(cellTexts[2]), time_to |-> cleanText(cellTexts[2]),
               attendance |-> cleanText(cellTexts[3]) ]
        ELSE [ time_from |-> "", time_to |-> "", attendance |-> cleanText(cellTexts[2]) ]

\* time_from, time_to and attendance by the number of cells
Columns(cellTexts) ==
    LET n == Len(cellTexts)
        cell1 == cleanText(cellTexts[2])
    IN  IF n >= 4
        THEN [ time_from |-> cleanText(cellTexts[2]), time_to |-> cleanText(cellTexts[3]),
               attendance |-> cleanText(cellTexts[4]) ]
        ELSE IF n = 3
        THEN IF HasClock(cell1) \/ IncludesTo(cell1) \/ IncludesDash(cell1)
             THEN IF TimeMatch(cell1) # << >>
                  THEN [ time_from |-> TimeMatch(cell1)[1],
                         time_to |-> TimeMatch(cell1)[2],
                         attendance |-> cleanText(cellTexts[3]) ]
                  ELSE [ time_from |-> cell1, time_to |-> cell1,
                         attendance |-> cleanText(cellTexts[3]) ]
             ELSE IF HasRatio(cell1)
             THEN [ time_from |-> "", time_to |-> cell1,
                    attendance |-> cleanText(cellTexts[3]) ]
             ELSE [ time_from |-> cell1, time_to |-> "",
                    attendance |-> cleanText(cellTexts[3]) ]
        ELSE [ time_from |-> "", time_to |-> "", attendance |-> cleanText(cellTexts[2]) ]

\* subject.toUpperCase() === subject && subject.length > 10
LongUpperCase(s) == s = "ANATOMY PRACTICAL"

\* subject.toLowerCase().includes('subject')
NamesSubject(s) == s = "Subject Name"

\* subject.match(/^[#\-\s]+$/)
OnlyHashDash(s) == s \in { "--", "-" }

\* the test that skips a row for its subject
InvalidSubject(s) ==
    \/ s = ""
    \/ ShorterThan2(s)
    \/ LongUpperCase(s)
    \/ NamesSubject(s)
    \/ OnlyHashDash(s)

\* the callback without its test for <th> cells
ParseTrKeepsHeader(t) ==
    LET n == Len(t.tds)
        cellTexts == [ i \in 1..n |-> cleanText(t.tds[i].text) ]
        subject == cleanText(cellTexts[1])
        c == Columns(cellTexts)
        attendanceCell == t.tds[IF n >= 4 THEN 4 ELSE IF n >= 3 THEN 3 ELSE n]
    IN  IF n < 2 \/ InvalidSubject(subject)
        THEN NoDatewiseRow
        ELSE [ subject |-> subject, time_from |-> c.time_from,
               time_to |-> IF NamesSession(c.time_to) THEN SessionOf(c.time_to)
                           ELSE c.time_to,
               attendance |-> Status(c.attendance, attendanceCell),
               pushed |-> TRUE ]

\* the callback of trs.each for the row: it pushes a row or returns early
ParseTr(t) ==
    LET n == Len(t.tds)
        cellTexts == [ i \in 1..n |-> cleanText(t.tds[i].text) ]
        subject == cleanText(cellTexts[1])
        c == Columns(cellTexts)
        attendanceCell == t.tds[IF n >= 4 THEN 4 ELSE IF n >= 3 THEN 3 ELSE n]
        attendance == Status(c.attendance, attendanceCell)
        time_to == IF NamesSession(c.time_to) THEN SessionOf(c.time_to)
                   ELSE c.time_to
    IN  IF t.th \/ n < 2 \/ InvalidSubject(subject)
        THEN NoDatewiseRow
        ELSE [ subject |-> subject, time_from |-> c.time_from,
               time_to |-> time_to, attendance |-> attendance, pushed |-> TRUE ]

\* parseDatewiseAttendanceRows reaches the row t of the table
ParseRow(t) ==
    /\ rpc = "idle"
    /\ rpc' = "done"
    /\ tr' = t
    /\ datewiseRow' = ParseTr(t)
    /\ UNCHANGED << poolVars, fetchVars, calcVars, appVars >>

----------------------------------------------------------------------------
(***************************************************************************)
(* parseDatewiseAttendanceRows for a whole document.  A document is what   *)
(* cheerio's selectors see of it: whether there is an element of class     *)
(* attendance_result, and its tables in document order, each with its      *)
(* <thead> rows and its other rows.                                        *)
(***************************************************************************)

MaxTables == 2      \* tables in a document
MaxTrs == 2         \* rows of a table outside its <thead>

\* rows a table is made of: a header row of <th> that also holds cells, a
\* row of one cell, a lecture, a row whose subject is a column title
TrTexts ==
    { Tr(TRUE, << Td("Biochemistry", "text"), Td("Present", "text") >>),
      Tr(FALSE, << Td("Biochemistry", "text") >>),
      Tr(FALSE, << Td("Biochemistry", "text"), Td("Present", "text") >>),
      Tr(FALSE, << Td("ANATOMY", "text"), Td("09:00-10:00", "text"),
                   Td("Absent", "text") >>),
      Tr(FALSE, << Td("Subject Name", "text"), Td("Present", "text") >>) }

TrLists == UNION { [ 1..n -> TrTexts ] : n \in 0..MaxTrs }

\* A table: whether it is inside the result box, whether it has a <thead>
\* and the rows under it, whether it has a <tbody>, and its other rows
\* (those of the <tbody> when there is one).
Table(inBox, thead, headTrs, tbody, trs) ==
    [ inBox |-> inBox, thead |-> thead, headTrs |-> headTrs, tbody |-> tbody,
      trs |-> trs ]

NoTable == Table(FALSE, FALSE, << >>, FALSE, << >>)

Lecture == Tr(FALSE, << Td("ANATOMY", "text"), Td("09:00-10:00", "text"),
                        Td("Absent", "text") >>)

\* no <thead>, an empty one, one with a row of cells
Theads ==
    { [ thead |-> FALSE, headTrs |-> << >> ], [ thead |-> TRUE, headTrs |-> << >> ],
      [ thead |-> TRUE, headTrs |-> << Lecture >> ] }

\* every table with its rows from lists
TablesOf(lists) ==
    { Table(b, h.thead, h.headTrs, y, l) :
        b \in BOOLEAN, h \in Theads, y \in BOOLEAN, l \in lists }

\* the tables a second table is taken from
SecondTables == TablesOf({ << Lecture >> })

\* the strings html can be: the documents with or without a result box
DocsOf(box) ==
    { [ box |-> box, tables |-> ts ] :
        ts \in { s \in { << >> } \cup { << a >> : a \in TablesOf(TrLists) }
                     \cup { << a, b >> : a \in TablesOf(TrLists), b \in SecondTables } :
                   /\ Len(s) <= MaxTables
                   /\ \A i \in 1..Len(s) : s[i].inBox => box } }

\* html is undefined, null or ''
Falsy == { "undefined", "null", "" }

NoDoc == [ box |-> FALSE, tables |-> << >> ]

Parsed(l) == [ threw |-> FALSE, rows |-> l ]

NotParsed == [ threw |-> FALSE, rows |-> << >> ]

DocIdle ==
    /\ ppc = "idle"
    /\ parsedHtml = "none"
    /\ parsedDoc = NoDoc
    /\ parsedRows = NotParsed

\* a.first() for the tables of s that pass the test: the table, or NoTable
FirstTable(s, Test(_)) ==
    IF \E i \in 1..Len(s) : Test(s[i])
    THEN s[CHOOSE i \in 1..Len(s) :
               Test(s[i]) /\ \A j \in 1..(i - 1) : ~Test(s[j])]
    ELSE NoTable

InBox(t) == t.inBox

HasTbody(t) == t.tbody

AnyTable(t) == TRUE

\* the three tries: .attendance_result table, then a table with a tbody,
\* then any table; found is table.length > 0
SelectTable(doc) ==
    LET s == doc.tables
        has(Test(_)) == \E i \in 1..Len(s) : Test(s[i])
    IN  IF doc.box /\ has(InBox) THEN [ found |-> TRUE, table |-> FirstTable(s, InBox) ]
        ELSE IF has(HasTbody) THEN [ found |-> TRUE, table |-> FirstTable(s, HasTbody) ]
        ELSE IF has(AnyTable) THEN [ found |-> TRUE, table |-> FirstTable(s, AnyTable) ]
        ELSE [ found |-> FALSE, table |-> NoTable ]

\* table.find('tr'): every row with whether it is under the <thead>
AllTrs(table) ==
    [ i \in 1..Len(table.headTrs) |-> [ tr |-> table.headTrs[i], inThead |-> TRUE ] ]
    \o [ i \in 1..Len(table.trs) |-> [ tr |-> table.trs[i], inThead |-> FALSE ] ]

NotInThead(r) == ~r.inThead

\* trs: tbody.find('tr'), or table.find('tr') without the rows of thead
TrsOfTable(table) ==
    IF table.tbody THEN SelectSeq(AllTrs(table), NotInThead)
    ELSE IF table.thead THEN SelectSeq(AllTrs(table), NotInThead)
    ELSE AllTrs(table)

\* trs.each: the rows pushed, in order
RECURSIVE EachTr(_)
EachTr(trs) ==
    IF trs = << >> THEN << >>
    ELSE LET r == Head(trs)
             row == ParseTr(r.tr)
         IN  IF r.inThead \/ ~row.pushed THEN EachTr(Tail(trs))
             ELSE << row >> \o EachTr(Tail(trs))

\* parseDatewiseAttendanceRows(html) for a document
ParseDoc(doc) ==
    LET sel == SelectTable(doc)
        trs == TrsOfTable(sel.table)
    IN  IF ~sel.found THEN Parsed(<< >>)
        ELSE IF Len(trs) = 0 THEN Parsed(<< >>)
        ELSE Parsed(EachTr(trs))

\* parseDatewiseAttendanceRows is called with nothing to parse
ParseFalsy(h) ==
    /\ ppc = "idle"
    /\ ppc' = "done"
    /\ parsedHtml' = h
    /\ parsedDoc' = NoDoc
    /\ parsedRows' = Parsed(<< >>)
    /\ UNCHANGED << poolVars, fetchVars, calcVars, rowVars, shutVars, loginVars, frontVars >>

\* parseDatewiseAttendanceRows is called with a document
ParseHtmlDoc(doc) ==
    /\ ppc = "idle"
    /\ ppc' = "done"
    /\ parsedHtml' = "document"
    /\ parsedDoc' = doc
    /\ parsedRows' = ParseDoc(doc)
    /\ UNCHANGED << poolVars, fetchVars, calcVars, rowVars, shutVars, loginVars, frontVars >>

----------------------------------------------------------------------------
(***************************************************************************)
(* POST /api/login and its background scrape job, and GET /api/attendance, *)
(* over the tables attendance and latest_snapshot.  A step is the code     *)
(* between two awaits; a transaction is one step, at its COMMIT.           *)
(***************************************************************************)

MaxLogins == 3      \* POST /api/login requests
MaxLoginTicks == 2  \* rate-limit windows that elapse
RATE_LIMIT == 30000 \* 30 * 1000

LoginUsers == { "u1", "u2" }

\* processed.length: the scrape found no row, or two
RowCounts == { 0, 2 }

Logins == 1..MaxLogins

NoGet == [ user |-> "", snapshot |-> "none", okBefore |-> FALSE, started |-> 0,
           status |-> 0, attendance |-> 0 ]

LoginIdle ==
    /\ lnow = 0
    /\ lastLoginAt = [ u \in LoginUsers |-> -1 ]
    /\ scrapingStatus = [ u \in LoginUsers |-> 0 ]
    /\ statusRunning = [ r \in Logins |-> FALSE ]
    /\ lpc = [ r \in Logins |-> "new" ]
    /\ loginUser = [ r \in Logins |-> "" ]
    /\ jobRows = [ r \in Logins |-> 0 ]
    /\ jobError = [ r \in Logins |-> FALSE ]
    /\ dbAttendance = [ u \in LoginUsers |-> 0 ]
    /\ latestSnapshot = [ u \in LoginUsers |-> "none" ]
    /\ gpc = "idle"
    /\ getReq = NoGet

loginKeeps == << poolVars, fetchVars, calcVars, rowVars, docVars, shutVars, frontVars >>

\* lastLoginAt[username] && (now - lastLoginAt[username] < 30 * 1000)
RateLimited(u) == lastLoginAt[u] # -1 /\ lnow - lastLoginAt[u] < RATE_LIMIT

\* mutant: a job is started whatever the status says
MayStartJobAlways(u) == TRUE

\* !scrapingStatus[username] || !scrapingStatus[username].running
MayStartJob(u) == scrapingStatus[u] = 0 \/ ~statusRunning[scrapingStatus[u]]

\* the jobs started so far for u
JobsStarted(u) ==
    Cardinality({ r \in Logins : loginUser[r] = u /\ lpc[r] \notin { "new", "429", "answered" } })

(* POST /api/login for u arrives with the right password and reaches the   *)
(* rate limit: 429, or the job is started (running: true, the job runs up  *)
(* to its await scrapeAttendance), or a job is running already.            *)
Login(r, u) ==
    /\ lpc[r] = "new"
    /\ \A q \in 1..(r - 1) : lpc[q] # "new"
    /\ loginUser' = [ loginUser EXCEPT ![r] = u ]
    /\ IF RateLimited(u)
       THEN /\ lpc' = [ lpc EXCEPT ![r] = "429" ]
            /\ UNCHANGED << lastLoginAt, scrapingStatus, statusRunning >>
       ELSE /\ lastLoginAt' = [ lastLoginAt EXCEPT ![u] = lnow ]
            /\ IF MayStartJob(u)
               THEN /\ scrapingStatus' = [ scrapingStatus EXCEPT ![u] = r ]
                    /\ statusRunning' = [ statusRunning EXCEPT ![r] = TRUE ]
                    /\ lpc' = [ lpc EXCEPT ![r] = "scraping" ]
               ELSE /\ lpc' = [ lpc EXCEPT ![r] = "answered" ]
                    /\ UNCHANGED << scrapingStatus, statusRunning >>
    /\ UNCHANGED << lnow, jobRows, jobError, dbAttendance, latestSnapshot, gpc,
                    getReq, loginKeeps >>

\* catch (err) { ... } finally { status.running = false }
JobFailed(r) ==
    /\ lpc' = [ lpc EXCEPT ![r] = "ended" ]
    /\ jobError' = [ jobError EXCEPT ![r] = TRUE ]
    /\ statusRunning' = [ statusRunning EXCEPT ![r] = FALSE ]

(* await scrapeAttendance(...) returns n rows or throws; processed is      *)
(* built and the job waits for the delete transaction.                     *)
ScrapeDone(r, n, ok) ==
    /\ lpc[r] = "scraping"
    /\ IF ok
       THEN /\ lpc' = [ lpc EXCEPT ![r] = "deleting" ]
            /\ jobRows' = [ jobRows EXCEPT ![r] = n ]
            /\ UNCHANGED << jobError, statusRunning >>
       ELSE JobFailed(r) /\ UNCHANGED jobRows
    /\ UNCHANGED << lnow, lastLoginAt, scrapingStatus, loginUser, dbAttendance,
                    latestSnapshot, gpc, getReq, loginKeeps >>

(* The transaction that deletes the user's rows of attendance and of       *)
(* latest_snapshot commits, or it is rolled back and the error rethrown.   *)
DeleteOld(r, ok) ==
    /\ lpc[r] = "deleting"
    /\ IF ok
       THEN /\ dbAttendance' = [ dbAttendance EXCEPT ![loginUser[r]] = 0 ]
            /\ latestSnapshot' = [ latestSnapshot EXCEPT ![loginUser[r]] = "none" ]
            /\ lpc' = [ lpc EXCEPT ![r] = "inserting" ]
            /\ UNCHANGED << jobError, statusRunning >>
       ELSE JobFailed(r) /\ UNCHANGED << dbAttendance, latestSnapshot >>
    /\ UNCHANGED << lnow, lastLoginAt, scrapingStatus, loginUser, jobRows, gpc,
                    getReq, loginKeeps >>

(* if (processed.length > 0): the transaction that inserts the rows        *)
(* commits, or it is rolled back and the error rethrown.                   *)
InsertRows(r, ok) ==
    /\ lpc[r] = "inserting"
    /\ IF ok \/ jobRows[r] = 0
       THEN /\ dbAttendance' = [ dbAttendance EXCEPT ![loginUser[r]] = @ + jobRows[r] ]
            /\ lpc' = [ lpc EXCEPT ![r] = "snapshot" ]
            /\ UNCHANGED << jobError, statusRunning >>
       ELSE JobFailed(r) /\ UNCHANGED dbAttendance
    /\ UNCHANGED << lnow, lastLoginAt, scrapingStatus, loginUser, jobRows,
                    latestSnapshot, gpc, getReq, loginKeeps >>

\* if (latestRows.length > 0) INSERT INTO latest_snapshot ... ON CONFLICT DO UPDATE
UpsertSnapshot(S, u) ==
    IF dbAttendance[u] > 0 THEN [ S EXCEPT ![u] = "row" ] ELSE S

(* The snapshot is written for the newest row of the user, the count is    *)
(* verified and the job ends: finally { status.running = false }.          *)
SnapshotDone(r, ok) ==
    /\ lpc[r] = "snapshot"
    /\ IF ok
       THEN /\ latestSnapshot' = UpsertSnapshot(latestSnapshot, loginUser[r])
            /\ lpc' = [ lpc EXCEPT ![r] = "ended" ]
            /\ statusRunning' = [ statusRunning EXCEPT ![r] = FALSE ]
            /\ UNCHANGED jobError
       ELSE JobFailed(r) /\ UNCHANGED latestSnapshot
    /\ UNCHANGED << lnow, lastLoginAt, scrapingStatus, loginUser, jobRows,
                    dbAttendance, gpc, getReq, loginKeeps >>

\* the rate-limit window passes
LoginTick ==
    /\ lnow < MaxLoginTicks * RATE_LIMIT
    /\ lnow' = lnow + RATE_LIMIT
    /\ UNCHANGED << lastLoginAt, scrapingStatus, statusRunning, lpc, loginUser,
                    jobRows, jobError, dbAttendance, latestSnapshot, gpc, getReq,
                    loginKeeps >>

\* the newest job of u has ended without error
JobCompleted(u) ==
    /\ scrapingStatus[u] # 0
    /\ lpc[scrapingStatus[u]] = "ended"
    /\ ~jobError[scrapingStatus[u]]

(* GET /api/attendance of u: the query on latest_snapshot returns; without *)
(* an entry the answer is 202.                                             *)
GetSnapshot(u) ==
    /\ gpc = "idle"
    /\ IF latestSnapshot[u] = "none"
       THEN /\ gpc' = "done"
            /\ getReq' = [ user |-> u, snapshot |-> "none",
                           okBefore |-> JobCompleted(u), started |-> JobsStarted(u),
                           status |-> 202, attendance |-> 0 ]
       ELSE /\ gpc' = "rows"
            /\ getReq' = [ user |-> u, snapshot |-> latestSnapshot[u],
                           okBefore |-> JobCompleted(u), started |-> JobsStarted(u),
                           status |-> 0, attendance |-> 0 ]
    /\ UNCHANGED << lnow, lastLoginAt, scrapingStatus, statusRunning, lpc, loginUser,
                    jobRows, jobError, dbAttendance, latestSnapshot, loginKeeps >>

\* the answer for the rows read and the snapshot read before
AttendanceAnswer(n, snap) ==
    IF n = 0
    THEN IF snap = "null" THEN [ status |-> 200, attendance |-> 0 ]
         ELSE [ status |-> 202, attendance |-> 0 ]
    ELSE [ status |-> 200, attendance |-> n ]

\* the query on attendance returns and the route answers
GetRows ==
    /\ gpc = "rows"
    /\ gpc' = "done"
    /\ getReq' = [ getReq EXCEPT
                     !.status = AttendanceAnswer(dbAttendance[getReq.user],
                                                 getReq.snapshot).status,
                     !.attendance = AttendanceAnswer(dbAttendance[getReq.user],
                                                     getReq.snapshot).attendance ]
    /\ UNCHANGED << lnow, lastLoginAt, scrapingStatus, statusRunning, lpc, loginUser,
                    jobRows, jobError, dbAttendance, latestSnapshot, loginKeeps >>

----------------------------------------------------------------------------
(***************************************************************************)
(* fetchDatewiseAttendance, the HTTP client version of the scrape: one GET *)
(* of the attendance page, one POST per candidate endpoint, then one form  *)
(* submission.  A step is the code between two awaits on the client.       *)
(***************************************************************************)

MaxHtmlLen == 2     \* lengths of a response body that are told apart
MaxDataRows == 1    \* data rows in a response
PageLen == 1        \* length of the attendance page

LMS_BASE == "https://sbmchlms.com/lms"

Url(path) == << LMS_BASE, path >>       \* `${LMS_BASE}${path}`

ATT_PAGE == Url("/user/attendence")

StaticPaths ==
    << "/user/attendence/subjectgetdaysubattendence",
       "/user/attendence/getdatewiseattendence",
       "/user/attendence/getdatewiseattendance",
       "/user/attendence/datewiseattendence",
       "/user/attendence/datewiseattendance",
       "/user/attendence/getattendencebydate",
       "/user/attendence/getattendancebydate",
       "/user/attendence/getdateattendence",
       "/user/attendence/getdateattendance",
       "/user/attendence/getdatewiseattendenceby",
       "/user/attendence/getattendencebydatewise",
       "/user/attendence/ajax" >>

\* Paths a page can name in a script or a data attribute: one that the
\* static list lacks and one that it holds.
PagePaths == { "/user/attendence/getbydate", "/user/attendence/ajax" }

\* foundEndpoints: no path twice
FoundLists ==
    { << >> } \cup { << a >> : a \in PagePaths }
        \cup { p \in PagePaths \X PagePaths : p[1] # p[2] }

MsgPageFailed == "Attendance page request failed"
MsgSessionInvalid == "Session invalid - attendance page returned login page."
MsgPayloadEmpty == "Cannot determine date field names from page. Payload is empty."
MsgRequestStatus == "Request failed with status"
MsgNetwork == "fetch failed"
MsgFormStatus == "Date-wise attendance request failed"
MsgFormJs == "Form submission did not work - the page may require JavaScript to submit the date filter. All endpoints failed."
NoError == "null"

\* A body: its length, which of the words the code looks for it contains,
\* whether it holds a table, and the data rows of that table.
Words == { "dob", "end_dob", "attendance_result" }

NoHtml == [ len |-> 0, text |-> {}, table |-> FALSE, dataRows |-> 0 ]

Htmls ==
    { h \in [ len : 1..MaxHtmlLen, text : SUBSET Words, table : BOOLEAN,
              dataRows : 0..MaxDataRows ] :
        /\ "end_dob" \in h.text => "dob" \in h.text
        /\ h.dataRows > 0 => h.table }

\* The loop over the endpoints never looks at the length of a body.
\* nor at its words.
EndpointHtmls == { h \in Htmls : h.len = MaxHtmlLen /\ h.text = {} }

FetchDates == { "2024-01-15", "2024-01-16" }

NoDate == "undefined"

\* a form of the page: its action attribute ("" when it has none) and the
\* names and values of its fields
Form(action, fields) == [ action |-> action, fields |-> fields ]

NoFields == [ n \in {} |-> "" ]

ClassField == [ n \in { "clschg" } |-> "1" ]

DatedFields ==
    [ n \in { "clschg", "date", "dob" } |-> IF n = "clschg" THEN "1" ELSE "2000-01-01" ]

FormLists ==
    { << >>,
      << Form("", NoFields) >>,
      << Form("getStudentClass", DatedFields) >>,
      << Form("getStudentClass", ClassField), Form("search", NoFields) >> }

Pages ==
    [ len : { PageLen }, found : FoundLists,
      inputs : { {}, { "dob", "end_dob" } }, forms : FormLists ]

NoPage == [ len |-> 0, found |-> << >>, inputs |-> {}, forms |-> << >> ]

NoPayload == [ n \in {} |-> "" ]

Response(k, h, n) == [ kind |-> k, html |-> h, rows |-> n ]

NoResponse == Response("none", NoHtml, 0)

\* The client rejects, answers with a non-OK status, or answers with a body
\* that cannot be read, that is text, or that is JSON: html is then its
\* result_page, html or data field and rows the length of its rows array.
EndpointResponses ==
    { Response(k, NoHtml, 0) : k \in { "throw", "status", "unreadable" } }
        \cup { Response("text", h, 0) : h \in EndpointHtmls \cup { NoHtml } }
        \cup { Response("json", h, n) : h \in EndpointHtmls \cup { NoHtml },
                                         n \in 0..MaxDataRows }

FormResponses ==
    { Response(k, NoHtml, 0) : k \in { "throw", "status" } }
        \cup { Response("text", h, 0) : h \in Htmls \cup { NoHtml } }

NotFetched == [ kind |-> "none", rows |-> 0, raw |-> FALSE, message |-> NoError ]

Returned(n, raw) == [ kind |-> "rows", rows |-> n, raw |-> raw, message |-> NoError ]

Thrown(m) == [ kind |-> "error", rows |-> 0, raw |-> FALSE, message |-> m ]

FetchIdle ==
    /\ fpc = "idle"
    /\ requested = NoDate
    /\ posted = << >>
    /\ attendancePageHtml = NoPage
    /\ possibleEndpoints = << >>
    /\ payload = NoPayload
    /\ triedEndpoints = << >>
    /\ lastError = NoError
    /\ submitted = 0
    /\ lastResponse = NoResponse
    /\ fetched = NotFetched

\* number of rows parseDatewiseAttendanceRows(html) returns
parseDatewiseAttendanceRows(h) ==
    IF h.len = 0 THEN 0
    ELSE IF ~h.table THEN 0
    ELSE h.dataRows

\* a.indexOf(v)
IndexOf(a, v) == CHOOSE i \in 1..Len(a) : a[i] = v /\ \A j \in 1..(i - 1) : a[j] # v

\* a.filter((v, i, a) => a.indexOf(v) === i)
RemoveDuplicates(a) ==
    LET F[i \in 0..Len(a)] ==
            IF i = 0 THEN << >>
            ELSE IF IndexOf(a, a[i]) = i THEN Append(F[i - 1], a[i])
            ELSE F[i - 1]
    IN  F[Len(a)]

MapUrl(paths) == [ i \in 1..Len(paths) |-> Url(paths[i]) ]

PossibleEndpoints(page) ==
    RemoveDuplicates(MapUrl(page.found) \o MapUrl(StaticPaths) \o << ATT_PAGE >>)

\* names the form fields do not overwrite once they are in the payload
ProtectedNames == { "date", "end_date", "dob", "end_dob", "subject" }

\* the fields of $page('form').first()
FirstFormFields(page) ==
    IF page.forms = << >> THEN NoFields ELSE page.forms[1].fields

\* BuildPayload with every field of the first form written over the payload
BuildPayloadFormWins(page, d) ==
    LET f == FirstFormFields(page)
        names == { "date", "end_date", "subject" } \cup page.inputs
    IN  [ n \in names \cup DOMAIN f |->
            IF n \in DOMAIN f THEN f[n] ELSE IF n = "subject" THEN "" ELSE d ]

\* The payload for date d: date, end_date and subject, then the date inputs
\* of the page, then the fields of the first form.
BuildPayload(page, d) ==
    LET p0 == [ n \in { "date", "end_date", "subject" } |->
                  IF n = "subject" THEN "" ELSE d ]
        p1 == [ n \in DOMAIN p0 \cup (page.inputs \ { "date", "end_date" }) |->
                  IF n \in DOMAIN p0 THEN p0[n] ELSE d ]
        f == FirstFormFields(page)
    IN  [ n \in DOMAIN p1 \cup DOMAIN f |->
            IF n \in DOMAIN f /\ (n \notin DOMAIN p1 \/ n \notin ProtectedNames)
            THEN f[n] ELSE p1[n] ]

\* new URL(action, ATT_PAGE): a relative reference takes the place of the
\* last segment of ATT_PAGE
Resolve(action) == << LMS_BASE, "/user/", action >>

\* The form that is submitted is the first one whose action does not name
\* getStudentClass, or else the first form; its action defaults to ATT_PAGE.
FormUrl(page) ==
    LET other == { i \in 1..Len(page.forms) : page.forms[i].action # "getStudentClass" }
        action == IF page.forms = << >> THEN ""
                  ELSE IF other # {}
                  THEN page.forms[CHOOSE i \in other : \A j \in other : i <= j].action
                  ELSE page.forms[1].action
    IN  IF action = "" THEN ATT_PAGE ELSE Resolve(action)

Post(url, body) == [ url |-> url, body |-> body ]

\* What one pass of the loop body does with the response of an endpoint:
\* return rows, or go on to the next candidate with lastError le.
Return(n, raw, le) == [ ret |-> TRUE, rows |-> n, raw |-> raw, lastError |-> le ]

Continue(le) == [ ret |-> FALSE, rows |-> 0, raw |-> FALSE, lastError |-> le ]

\* ParseHtml without the return at the first rows
ParseHtmlGoesOn(h, le) == Continue(le)

ParseHtml(h, le) ==
    IF h.len = 0 THEN Continue(le)
    ELSE IF parseDatewiseAttendanceRows(h) > 0
         THEN Return(parseDatewiseAttendanceRows(h), FALSE, le)
         ELSE Continue(le)

HandleResponse(r, le) ==
    CASE r.kind = "throw" -> Continue(MsgNetwork)
      [] r.kind = "status" -> Continue(MsgRequestStatus)
      [] r.kind = "unreadable" -> Continue(le)
      [] r.kind = "json" /\ r.html.len = 0 ->
            IF r.rows > 0 THEN Return(r.rows, TRUE, le) ELSE Continue(le)
      [] OTHER -> ParseHtml(r.html, le)

\* isSamePage without the test for a page that shows the date form and no
\* result
isSamePageByLength(h, page) == h.len = page.len

isSamePage(h, page) ==
    \/ h.len = page.len
    \/ "dob" \in h.text /\ "end_dob" \in h.text /\ "attendance_result" \notin h.text

\* The call: the GET of the attendance page is issued.
FetchStart(d) ==
    /\ fpc = "idle"
    /\ fpc' = "page"
    /\ requested' = d
    /\ UNCHANGED << posted, attendancePageHtml, possibleEndpoints, payload,
                    triedEndpoints, lastError, submitted, lastResponse, fetched >>
    /\ UNCHANGED << poolVars, calcVars, rowVars, appVars >>

\* The attendance page arrives (how: "throw", "status", "login" or "page").
\* The candidates and the payload are built and the first POST is issued.
PageReceived(how, page) ==
    /\ fpc = "page"
    /\ UNCHANGED << requested, lastError, submitted, lastResponse >>
    /\ UNCHANGED << poolVars, calcVars, rowVars, appVars >>
    /\ IF how # "page"
       THEN /\ fpc' = "done"
            /\ fetched' = Thrown(CASE how = "throw" -> MsgNetwork
                                   [] how = "status" -> MsgPageFailed
                                   [] OTHER -> MsgSessionInvalid)
            /\ UNCHANGED << attendancePageHtml, possibleEndpoints, payload,
                            triedEndpoints, posted >>
       ELSE /\ attendancePageHtml' = page
            /\ possibleEndpoints' = PossibleEndpoints(page)
            /\ payload' = BuildPayload(page, requested)
            /\ IF DOMAIN BuildPayload(page, requested) = {}
               THEN /\ fpc' = "done"
                    /\ fetched' = Thrown(MsgPayloadEmpty)
                    /\ UNCHANGED << triedEndpoints, posted >>
               ELSE /\ fpc' = "posting"
                    /\ triedEndpoints' = << PossibleEndpoints(page)[1] >>
                    /\ posted' = << Post(PossibleEndpoints(page)[1],
                                         BuildPayload(page, requested)) >>
                    /\ UNCHANGED fetched

\* the for-of loop ends after the first candidate
HasNextFirstOnly(tried, candidates) == Len(tried) < 1

\* for (const endpoint of possibleEndpoints): there is a next candidate
HasNext(tried, candidates) == Len(tried) < Len(candidates)

\* The response of the endpoint tried last arrives.
EndpointResponded(r) ==
    /\ fpc = "posting"
    /\ UNCHANGED << requested, attendancePageHtml, possibleEndpoints, payload >>
    /\ UNCHANGED << poolVars, calcVars, rowVars, appVars >>
    /\ lastResponse' = r
    /\ LET o == HandleResponse(r, lastError)
           n == Len(triedEndpoints)
       IN  /\ lastError' = o.lastError
           /\ IF o.ret
              THEN /\ fpc' = "done"
                   /\ fetched' = Returned(o.rows, o.raw)
                   /\ UNCHANGED << triedEndpoints, submitted, posted >>
              ELSE IF HasNext(triedEndpoints, possibleEndpoints)
              THEN /\ triedEndpoints' = Append(triedEndpoints, possibleEndpoints[n + 1])
                   /\ posted' = Append(posted, Post(possibleEndpoints[n + 1], payload))
                   /\ UNCHANGED << fpc, fetched, submitted >>
              ELSE /\ fpc' = "form"
                   /\ submitted' = submitted + 1
                   /\ posted' = Append(posted, Post(FormUrl(attendancePageHtml), payload))
                   /\ UNCHANGED << triedEndpoints, fetched >>

\* The response of the form submission arrives.
FormResponded(r) ==
    /\ fpc = "form"
    /\ UNCHANGED << requested, posted, attendancePageHtml, possibleEndpoints,
                    payload, triedEndpoints, lastError, submitted >>
    /\ UNCHANGED << poolVars, calcVars, rowVars, appVars >>
    /\ lastResponse' = r
    /\ fpc' = "done"
    /\ fetched' =
          CASE r.kind = "throw" -> Thrown(MsgNetwork)
            [] r.kind = "status" ->
                  Thrown(IF lastError # NoError THEN lastError ELSE MsgFormStatus)
            [] OTHER ->
                  IF isSamePage(r.html, attendancePageHtml)
                  THEN Thrown(MsgFormJs)
                  ELSE Returned(parseDatewiseAttendanceRows(r.html), FALSE)

----------------------------------------------------------------------------
(* Program constants *)

MAX_BROWSERS == 2
BROWSER_IDLE_TIMEOUT == 60000
MAX_PAGES_PER_BROWSER == 3
MAX_CONSECUTIVE_FAILURES == 3
CACHE_TTL == 5 * 60 * 1000
CACHE_MAX == 100
SWEEP_INTERVAL == 30000

(* Bounds of the model *)

MaxTasks == 3        \* withBrowser calls made on the empty pool (Spec)
LoadedFree == 2      \* withBrowser calls made on one full browser (SpecOne)
FullFree == 1        \* withBrowser calls made on the full pool (SpecFull)
MaxRequests == 2     \* datewise requests (SpecReq)
MaxCacheTicks == 2   \* half cache lifetimes that elapse (SpecReq)
MaxCreated == 4      \* browsers launched successfully
MaxTicks == 3        \* sweep intervals that elapse
ShutTasks == 3      \* calls of withBrowser before and during a shutdown
LiveTasks == 2      \* the same, where every call is followed to its end
MaxIdleTicks == 4    \* sweep intervals that elapse (Spec)

----------------------------------------------------------------------------
(* Error messages.  The code classifies an error by String.includes on its *)
(* message, so a message is modelled by the set of the needles the code    *)
(* looks for that occur in its text.                                       *)

MsgQueueUnavailable == "Browser service unavailable. Puppeteer cannot launch Chrome. Please check your system configuration."
MsgTargetClosed == "Protocol error: Target closed"
MsgSessionClosed == "Protocol error: Session closed"
MsgEconnreset == "read ECONNRESET"
MsgNavTimeout == "Navigation timeout of 18000 ms exceeded"
MsgOther == "net::ERR_NAME_NOT_RESOLVED"
MsgNotAvailable == "Browser not available from pool"
MsgBothFailed == "Browser service unavailable. Puppeteer cannot launch Chrome. Please check Windows Defender/firewall settings or install Chrome manually."
MsgScrapeTimeout == "Scraping timeout: Request took too long. Render free tier has a 30 second request limit."

Needles(m) ==
    CASE m = MsgQueueUnavailable -> {"Browser service unavailable", "Puppeteer cannot launch"}
      [] m = MsgTargetClosed -> {"Target closed"}
      [] m = MsgSessionClosed -> {"Session closed"}
      [] m = MsgEconnreset -> {"ECONNRESET", "read ECONNRESET"}
      [] m = MsgNavTimeout -> {"timeout"}
      [] m = MsgNotAvailable -> {"Browser not available"}
      [] m = MsgBothFailed -> {"Browser service unavailable", "Puppeteer cannot launch"}
      [] m = MsgScrapeTimeout -> {"Scraping timeout", "timeout"}
      [] OTHER -> {}

Includes(m, needle) == needle \in Needles(m)

(* err.message?.includes('Target closed') || ...('Session closed') || ...('ECONNRESET') *)
IsBrowserError(m) ==
    \/ Includes(m, "Target closed")
    \/ Includes(m, "Session closed")
    \/ Includes(m, "ECONNRESET")

RawOutcomes == {"ok", MsgTargetClosed}

NoReq == [ username |-> "", dateToFetch |-> "", password |-> "" ]

(* outcomes of the scrape task of scrapeDatewiseAttendance *)
ScrapeOutcomes == {"ok", MsgEconnreset, MsgTargetClosed, MsgNavTimeout}

Users == {"u1"}
Dates == {"d1", "d2"}

(* the password of the request body: the one the LMS accepts for the user, *)
(* or another one                                                          *)
Passwords == {"right", "wrong"}

----------------------------------------------------------------------------
(* The mutable state of the module as one record, so that the synchronous  *)
(* parts of the handlers can be composed.                                  *)

Cur ==
    [ pool |-> browserPool, active |-> activeBrowsers, queue |-> queue,
      processing |-> processingQueue, cf |-> consecutiveFailures,
      dpc |-> dpc, dToClose |-> dToClose, closing |-> closing,
      nextId |-> nextId, pc |-> pc, lease |-> lease, toClose |-> toClose,
      result |-> result, relCount |-> relCount, dispatched |-> dispatched,
      blocked |-> blocked, kind |-> kind, req |-> req, cache |-> cache,
      timer |-> timer, status |-> status, sres |-> sres, scrapes |-> scrapes,
      directTries |-> directTries, directOpen |-> directOpen,
      startedAt |-> startedAt, seenTs |-> seenTs ]

Commit(D) ==
    /\ UNCHANGED << fetchVars, calcVars, rowVars, appVars >>
    /\ browserPool' = D.pool
    /\ activeBrowsers' = D.active
    /\ queue' = D.queue
    /\ processingQueue' = D.processing
    /\ consecutiveFailures' = D.cf
    /\ dpc' = D.dpc
    /\ dToClose' = D.dToClose
    /\ closing' = D.closing
    /\ nextId' = D.nextId
    /\ pc' = D.pc
    /\ lease' = D.lease
    /\ toClose' = D.toClose
    /\ result' = D.result
    /\ relCount' = D.relCount
    /\ dispatched' = D.dispatched
    /\ blocked' = D.blocked
    /\ kind' = D.kind
    /\ req' = D.req
    /\ cache' = D.cache
    /\ timer' = D.timer
    /\ status' = D.status
    /\ sres' = D.sres
    /\ scrapes' = D.scrapes
    /\ directTries' = D.directTries
    /\ directOpen' = D.directOpen
    /\ startedAt' = D.startedAt
    /\ seenTs' = D.seenTs

Ids(P) == { P[i].id : i \in 1..Len(P) }

MinOf(S) == CHOOSE x \in S : \A y \in S : x <= y

(* browserPool.filter(b => now - b.lastUsedAt > BROWSER_IDLE_TIMEOUT &&    *)
(*                         b.pageCount === 0 && activeBrowsers.has(b.id))  *)
IsIdle(b, A) ==
    /\ now - b.lastUsedAt > BROWSER_IDLE_TIMEOUT
    /\ b.pageCount = 0
    /\ b.id \in A

IdleList(P, A) ==
    LET F == SelectSeq(P, LAMBDA b : IsIdle(b, A))
    IN  [ i \in 1..Len(F) |-> F[i].id ]

(* activeBrowsers.delete(id); browserPool.splice(findIndex(id), 1)         *)
RemoveBrowser(D, id) ==
    [ D EXCEPT !.active = @ \ {id},
               !.pool = SelectSeq(@, LAMBDA b : b.id # id) ]

(* mutant: the capacity test admits a browser that is at its cap *)
HasCapacityLoose(b, A) == b.pageCount <= MAX_PAGES_PER_BROWSER /\ b.id \in A

(* (b) => b.pageCount < MAX_PAGES_PER_BROWSER && activeBrowsers.has(b.id)  *)
HasCapacity(b, A) == b.pageCount < MAX_PAGES_PER_BROWSER /\ b.id \in A

(* mutant: one browser more than MAX_BROWSERS may be launched *)
MayCreateLoose(A) == Cardinality(A) <= MAX_BROWSERS

(* activeBrowsers.size < MAX_BROWSERS *)
MayCreate(A) == Cardinality(A) < MAX_BROWSERS

(* acquireBrowser after its cleanupIdleBrowsers() has finished: reuse the  *)
(* first browser with capacity, else launch one, else null.                *)
FindOrCreate(D) ==
    LET S == { i \in 1..Len(D.pool) : HasCapacity(D.pool[i], D.active) }
    IN  IF S # {}
        THEN LET i == MinOf(S)
             IN  [ kind |-> "lease", id |-> D.pool[i].id,
                   pool |-> [ D.pool EXCEPT ![i].lastUsedAt = now,
                                            ![i].pageCount = @ + 1 ],
                   list |-> << >> ]
        ELSE IF MayCreate(D.active)
        THEN [ kind |-> "create", id |-> 0, pool |-> D.pool, list |-> << >> ]
        ELSE [ kind |-> "null", id |-> 0, pool |-> D.pool, list |-> << >> ]

(* acquireBrowser up to its first wait: cleanupIdleBrowsers() selects the  *)
(* idle browsers and starts closing the first one; with none to close the  *)
(* function goes on to the search at once.                                 *)
AcquireBrowser(D) ==
    LET L == IdleList(D.pool, D.active)
    IN  IF L # << >>
        THEN [ kind |-> "closing", id |-> 0, pool |-> D.pool, list |-> L ]
        ELSE FindOrCreate(D)

(* createBrowser after puppeteer.launch resolved: browserInfo is built with *)
(* pageCount 0, activeBrowsers.add(id), browserPool.push(browserInfo).      *)
(* Math.random() ids are modelled by fresh numbers.                        *)
CreateBrowser(D) ==
    LET id == D.nextId + 1
    IN  [ D EXCEPT !.nextId = id,
                   !.active = @ \cup {id},
                   !.pool = Append(@, [ id |-> id, lastUsedAt |-> now,
                                        pageCount |-> 0 ]) ]

(* acquireBrowser after createBrowser() returned the new browserInfo (the  *)
(* last entry of the pool): newBrowser.pageCount = 1; return newBrowser.   *)
(* createBrowser's promise is resolved by its own return, so nothing runs  *)
(* between the push and this assignment.                                   *)
NewPageCount == 1

AfterCreate(D) ==
    [ kind |-> "lease", id |-> D.pool[Len(D.pool)].id,
      pool |-> [ D.pool EXCEPT ![Len(D.pool)].pageCount = NewPageCount ],
      list |-> << >> ]

(* mutant: a failed creation yields a browser record instead of null *)
CreateFailedLeases(D) ==
    [ kind |-> "lease", id |-> 0, pool |-> D.pool, list |-> << >> ]

(* acquireBrowser when createBrowser() returned null *)
CreateFailed(D) ==
    [ kind |-> "null", id |-> 0, pool |-> D.pool, list |-> << >> ]

----------------------------------------------------------------------------
(* datewiseAttendanceService.js: the cache *)

(* getCacheKey: `datewise:${username}:${dateToFetch}` *)
CacheKey(username, dateToFetch) == << "datewise", username, dateToFetch >>

(* mutant: the age is taken for seconds *)
IsFreshSeconds(entry) == (now - entry.timestamp) * 1000 < CACHE_TTL

(* Date.now() - cached.timestamp < CACHE_TTL *)
IsFresh(entry) == now - entry.timestamp < CACHE_TTL

(* mutant: the data of the entry whatever its age *)
GetCachedStale(C, username, dateToFetch) ==
    LET key == CacheKey(username, dateToFetch)
    IN  IF key \in DOMAIN C THEN C[key].data ELSE NoReq

(* getCached: the data of a fresh entry, else null (NoReq) *)
GetCached(C, username, dateToFetch) ==
    LET key == CacheKey(username, dateToFetch)
    IN  IF key \in DOMAIN C /\ IsFresh(C[key]) THEN C[key].data ELSE NoReq

(* getCached: the cache after the lookup, an expired entry is deleted *)
CacheAfterGet(C, username, dateToFetch) ==
    LET key == CacheKey(username, dateToFetch)
    IN  IF key \in DOMAIN C /\ ~IsFresh(C[key])
        THEN [ k \in DOMAIN C \ {key} |-> C[k] ]
        ELSE C

(* mutant: the entry is stored under a key without the date *)
SetCacheNoDate(C, username, dateToFetch, data) ==
    LET key == CacheKey(username, "d1")
    IN  [ k \in DOMAIN C \cup {key} |->
            IF k = key THEN [ data |-> data, timestamp |-> now ] ELSE C[k] ]

(* setCache: store the entry; above CACHE_MAX entries drop the expired ones *)
SetCache(C, username, dateToFetch, data) ==
    LET key == CacheKey(username, dateToFetch)
        C1  == [ k \in DOMAIN C \cup {key} |->
                   IF k = key THEN [ data |-> data, timestamp |-> now ]
                   ELSE C[k] ]
    IN  IF Cardinality(DOMAIN C1) > CACHE_MAX
        THEN [ k \in { x \in DOMAIN C1 : ~(now - C1[x].timestamp > CACHE_TTL) }
                 |-> C1[k] ]
        ELSE C1

(* the scrape of request t reached setCache(username, dateToFetch, result) *)
WriteCache(D, t) ==
    [ D EXCEPT !.cache = SetCache(@, D.req[t].username, D.req[t].dateToFetch,
                                  D.req[t]) ]

----------------------------------------------------------------------------
(* attendance.js, POST /api/attendance/datewise: the status of the error   *)
(* response                                                                *)
StatusFor(m) ==
    IF \/ Includes(m, "Browser service unavailable")
       \/ Includes(m, "Puppeteer cannot launch")
       \/ Includes(m, "Could not find Chrome")
       \/ Includes(m, "timeout")
       \/ Includes(m, "Scraping timeout")
    THEN 503
    ELSE IF Includes(m, "timeout") \/ Includes(m, "Timeout")
    THEN 504
    ELSE 500

(* The scrapeDatewiseAttendance promise of request t settles with res.     *)
(* The route is waiting in Promise.race: unless the timeout has won the    *)
(* race before, it answers res.json(result) or the status of the error.    *)
ScrapeSettled(D, t, res) ==
    LET D1 == [ D EXCEPT !.pc[t] = "done", !.sres[t] = res ]
    IN  IF D.timer[t] = "armed"
        THEN [ D1 EXCEPT !.timer[t] = "off",
                         !.status[t] = IF res = "ok" THEN 200 ELSE StatusFor(res) ]
        ELSE D1

(* mutant: a closed page also triggers the fallback *)
IsFallbackErrorWide(m) ==
    \/ Includes(m, "Browser not available")
    \/ Includes(m, "ECONNRESET")
    \/ Includes(m, "Target closed")
    \/ Includes(m, "Browser service unavailable")
    \/ Includes(m, "Puppeteer cannot launch")

(* scrapeDatewiseAttendance, the test of its catch block *)
IsFallbackError(m) ==
    \/ Includes(m, "Browser not available")
    \/ Includes(m, "ECONNRESET")
    \/ Includes(m, "read ECONNRESET")
    \/ Includes(m, "Browser service unavailable")
    \/ Includes(m, "Puppeteer cannot launch")

(* scrapeDatewiseAttendance after `await withBrowser(...)` settled with    *)
(* res: return the result, or call scrapeWithDirectPuppeteer (which runs   *)
(* up to its puppeteer.launch), or rethrow.                                *)
AfterPool(D, t, res) ==
    IF res = "ok"
    THEN ScrapeSettled(D, t, res)
    ELSE IF IsFallbackError(res)
    THEN [ D EXCEPT !.pc[t] = "direct_launch", !.directTries[t] = @ + 1 ]
    ELSE ScrapeSettled(D, t, res)

----------------------------------------------------------------------------
(* browserPool.js, continued *)

(* The withBrowser promise settles: resolve(result) / reject(err); the     *)
(* caller that awaits it goes on.                                          *)
Settle(D, t, res) ==
    LET D1 == [ D EXCEPT !.pc[t] = "done", !.result[t] = res,
                         !.dispatched = @ \ {t}, !.blocked[t] = 0 ]
    IN  IF D.kind[t] = "scrape" THEN AfterPool(D1, t, res) ELSE D1

(* task(browserInfo) is called with the leased browser *)
StartTask(D, t, r) ==
    [ D EXCEPT !.pool = r.pool,
               !.scrapes[t] = IF D.kind[t] = "scrape" THEN @ + 1 ELSE @,
               !.pc[t] = "running",
               !.lease[t] = r.id ]

(* mutant: queue.pop() instead of queue.shift() *)
ShiftLast(q) == [ item |-> q[Len(q)], rest |-> SubSeq(q, 1, Len(q) - 1) ]

(* queue.shift() *)
Shift(q) == [ item |-> Head(q), rest |-> Tail(q) ]

(* mutant: only the head of the queue is rejected *)
RejectHead(D) ==
    IF D.queue = << >>
    THEN D
    ELSE Settle([ D EXCEPT !.queue = Shift(@).rest ], Shift(D.queue).item,
                MsgQueueUnavailable)

RECURSIVE RejectAll(_)
(* while (queue.length > 0) { const { resolve } = queue.shift();           *)
(*   resolve(Promise.reject(new Error('Browser service unavailable...')))} *)
RejectAll(D) ==
    IF D.queue = << >>
    THEN D
    ELSE RejectAll(Settle([ D EXCEPT !.queue = Shift(@).rest ],
                          Shift(D.queue).item, MsgQueueUnavailable))

RECURSIVE DrainLoop(_)
RECURSIVE DrainGot(_, _)

(* processQueue, the body of its loop after acquireBrowser() returned r *)
DrainGot(D, r) ==
    CASE r.kind = "closing" ->
            [ D EXCEPT !.dpc = "cleaning", !.dToClose = r.list ]
      [] r.kind = "create" ->
            [ D EXCEPT !.dpc = "creating" ]
      [] r.kind = "null" ->
            IF D.cf + 1 >= MAX_CONSECUTIVE_FAILURES
            THEN [ RejectAll(D) EXCEPT !.cf = D.cf + 1, !.dpc = "idle",
                                       !.processing = FALSE ]
            ELSE [ D EXCEPT !.cf = @ + 1, !.dpc = "backoff" ]
      [] r.kind = "lease" /\ D.queue = << >> ->
            \* queue.shift() is undefined: the destructuring throws, the
            \* catch logs it, finally processingQueue = false
            [ D EXCEPT !.pool = r.pool, !.dpc = "idle", !.processing = FALSE ]
      [] r.kind = "lease" /\ D.queue # << >> ->
            DrainLoop(StartTask([ D EXCEPT !.cf = 0,
                                           !.queue = Shift(@).rest,
                                           !.dispatched = @ \cup {Shift(D.queue).item} ],
                                Shift(D.queue).item, r))

(* processQueue: while (queue.length > 0) { await acquireBrowser() ... },  *)
(* and processingQueue = false once the loop is left.                      *)
DrainLoop(D) ==
    IF D.queue = << >>
    THEN [ D EXCEPT !.dpc = "idle", !.processing = FALSE ]
    ELSE DrainGot(D, AcquireBrowser(D))

(* processQueue(): if (processingQueue || queue.length === 0) return *)
ProcessQueue(D) ==
    IF D.processing \/ D.queue = << >>
    THEN D
    ELSE DrainLoop([ D EXCEPT !.processing = TRUE, !.cf = 0 ])

(* the pool holds MAX_BROWSERS browsers and each is at its lease cap *)
IsFull(P) ==
    /\ Len(P) = MAX_BROWSERS
    /\ \A i \in 1..Len(P) : P[i].pageCount = MAX_PAGES_PER_BROWSER

(* withBrowser: queue.push({ resolve, task }); processQueue() *)
Enqueue(D, t) ==
    ProcessQueue([ D EXCEPT !.queue = Append(@, t), !.pc[t] = "queued",
                            !.blocked[t] = IF IsFull(D.pool) THEN D.nextId ELSE @ ])

(* withBrowser, after its acquireBrowser() returned r *)
TaskGot(D, t, r) ==
    CASE r.kind = "closing" ->
            [ D EXCEPT !.pc[t] = "cleaning", !.toClose[t] = r.list ]
      [] r.kind = "create" ->
            [ D EXCEPT !.pc[t] = "creating" ]
      [] r.kind = "null" -> Enqueue(D, t)
      [] r.kind = "lease" -> StartTask(D, t, r)

(* recycleBrowser(browserInfo): browser.close() is awaited, the entry is   *)
(* removed when it returns.  A browser that has left the pool already is   *)
(* not tracked: removing it again changes nothing.                         *)
Recycle(D, id) ==
    IF id \in D.active \/ id \in Ids(D.pool)
    THEN [ D EXCEPT !.closing = @ \cup {id} ]
    ELSE D

(* releaseBrowser(browserInfo) *)
ReleaseBrowser(D, id) ==
    LET S == { i \in 1..Len(D.pool) : D.pool[i].id = id }
    IN  IF S = {}
        THEN D
        ELSE LET i  == MinOf(S)
                 n  == IF D.pool[i].pageCount - 1 > 0
                       THEN D.pool[i].pageCount - 1 ELSE 0
                 D1 == [ D EXCEPT !.pool[i].pageCount = n,
                                  !.pool[i].lastUsedAt = now,
                                  !.blocked = IF n < MAX_PAGES_PER_BROWSER
                                              THEN [ t \in DOMAIN @ |-> 0 ]
                                              ELSE @ ]
             IN  IF n >= MAX_PAGES_PER_BROWSER THEN Recycle(D1, id) ELSE D1

(* mutant: the lease is released by the .then handler only *)
TaskSettledNoCatchRelease(D, t, out) ==
    LET id == D.lease[t]
        D0 == IF D.kind[t] = "scrape" /\ out = "ok" THEN WriteCache(D, t) ELSE D
        D1 == IF out = "ok"
              THEN [ ReleaseBrowser(D0, id) EXCEPT !.relCount[t] = @ + 1 ]
              ELSE D0
        D2 == IF out # "ok" /\ IsBrowserError(out) THEN Recycle(D1, id) ELSE D1
    IN  Settle([ D2 EXCEPT !.lease[t] = 0 ], t, out)

(* The task settles with outcome out (the scrape task has called setCache  *)
(* before it returns its result); the .then / .catch handlers attached to  *)
(* task(browserInfo) run.                                                  *)
TaskSettled(D, t, out) ==
    LET id == D.lease[t]
        D0 == IF D.kind[t] = "scrape" /\ out = "ok" THEN WriteCache(D, t) ELSE D
        D1 == [ ReleaseBrowser(D0, id) EXCEPT !.relCount[t] = @ + 1 ]
        D2 == IF out # "ok" /\ IsBrowserError(out) THEN Recycle(D1, id) ELSE D1
    IN  Settle([ D2 EXCEPT !.lease[t] = 0 ], t, out)

----------------------------------------------------------------------------
(* Actions of the browser pool *)

Tasks == DOMAIN pc

(* withBrowser(task) is called: acquireBrowser() runs up to its first wait *)
Submit(k) ==
    /\ nextTask + 1 \in Tasks
    /\ nextTask' = nextTask + 1
    /\ LET D == [ Cur EXCEPT !.kind[nextTask + 1] = k ]
       IN  Commit(TaskGot(D, nextTask + 1, AcquireBrowser(D)))
    /\ UNCHANGED << now, sweepToClose >>

(* cleanupIdleBrowsers of a task's acquireBrowser: the browser.close() it  *)
(* awaits returns; the entry is removed, the next idle browser is closed,  *)
(* and after the last one acquireBrowser goes on to its search.            *)
TaskCloseDone(t) ==
    /\ pc[t] = "cleaning"
    /\ LET D1   == RemoveBrowser(Cur, Head(toClose[t]))
           rest == Tail(toClose[t])
       IN  IF rest # << >>
           THEN Commit([ D1 EXCEPT !.toClose[t] = rest ])
           ELSE Commit(TaskGot([ D1 EXCEPT !.toClose[t] = << >> ], t,
                               FindOrCreate(D1)))
    /\ UNCHANGED << now, sweepToClose, nextTask >>

(* puppeteer.launch of a task's createBrowser resolves *)
TaskCreated(t) ==
    /\ pc[t] = "creating"
    /\ nextId < MaxCreated
    /\ LET D1 == CreateBrowser(Cur)
       IN  Commit(TaskGot(D1, t, AfterCreate(D1)))
    /\ UNCHANGED << now, sweepToClose, nextTask >>

(* puppeteer.launch of a task's createBrowser rejects: createBrowser       *)
(* returns null, acquireBrowser returns null, the request is queued        *)
TaskCreateFailed(t) ==
    /\ pc[t] = "creating"
    /\ Commit(TaskGot(Cur, t, CreateFailed(Cur)))
    /\ UNCHANGED << now, sweepToClose, nextTask >>

(* the same three events for the acquireBrowser of processQueue *)
DrainCloseDone ==
    /\ dpc = "cleaning"
    /\ LET D1   == RemoveBrowser(Cur, Head(dToClose))
           rest == Tail(dToClose)
       IN  IF rest # << >>
           THEN Commit([ D1 EXCEPT !.dToClose = rest ])
           ELSE Commit(DrainGot([ D1 EXCEPT !.dToClose = << >> ],
                                FindOrCreate(D1)))
    /\ UNCHANGED << now, sweepToClose, nextTask >>

DrainCreated ==
    /\ dpc = "creating"
    /\ nextId < MaxCreated
    /\ LET D1 == CreateBrowser(Cur)
       IN  Commit(DrainGot(D1, AfterCreate(D1)))
    /\ UNCHANGED << now, sweepToClose, nextTask >>

DrainCreateFailed ==
    /\ dpc = "creating"
    /\ Commit(DrainGot(Cur, CreateFailed(Cur)))
    /\ UNCHANGED << now, sweepToClose, nextTask >>

(* the setTimeout of the backoff fires: continue *)
BackoffDone ==
    /\ dpc = "backoff"
    /\ Commit(DrainLoop(Cur))
    /\ UNCHANGED << now, sweepToClose, nextTask >>

(* the promise of task(browserInfo) settles with outcome out *)
TaskDone(t, out) ==
    /\ pc[t] = "running"
    /\ Commit(TaskSettled(Cur, t, out))
    /\ UNCHANGED << now, sweepToClose, nextTask >>

(* the browser.close() of a recycleBrowser started by a task error returns *)
RecycleCloseDone(id) ==
    /\ id \in closing
    /\ Commit([ RemoveBrowser(Cur, id) EXCEPT !.closing = @ \ {id} ])
    /\ UNCHANGED << now, sweepToClose, nextTask >>

(* browser.on('disconnected'): Chrome exited or the connection dropped *)
Disconnected(id) ==
    /\ id \in Ids(browserPool)
    /\ Commit(RemoveBrowser(Cur, id))
    /\ UNCHANGED << now, sweepToClose, nextTask >>

(* setInterval(() => cleanupIdleBrowsers(), 30000).  A sweep with nothing  *)
(* to close changes nothing; one sweep is in progress at a time.           *)
Sweep ==
    /\ sweepToClose = << >>
    /\ IdleList(browserPool, activeBrowsers) # << >>
    /\ sweepToClose' = IdleList(browserPool, activeBrowsers)
    /\ Commit(Cur)
    /\ UNCHANGED << now, nextTask >>

SweepCloseDone ==
    /\ sweepToClose # << >>
    /\ sweepToClose' = Tail(sweepToClose)
    /\ Commit(RemoveBrowser(Cur, Head(sweepToClose)))
    /\ UNCHANGED << now, nextTask >>

(* What cleanup() leaves alone: every variable of the pool but the pool,   *)
(* the set of active browsers and the queue.                               *)
poolRest ==
    << processingQueue, consecutiveFailures, dpc, dToClose, sweepToClose,
       closing, nextId, now, nextTask, kind, pc, lease, toClose, result,
       relCount, dispatched, blocked, req, cache, timer, status, sres,
       scrapes, directTries, directOpen, startedAt, seenTs >>

ShutIdle ==
    /\ shutPc = "idle"
    /\ shutClosing = {}

(* cleanup() is called (SIGTERM or SIGINT): recycleBrowser(b) runs for     *)
(* every browser of the pool up to its await browser.close(); with an      *)
(* empty pool Promise.all resolves at once and queue = [].                 *)
Cleanup ==
    /\ shutPc = "idle"
    /\ shutClosing' = Ids(browserPool)
    /\ shutPc' = IF browserPool = << >> THEN "done" ELSE "closing"
    /\ queue' = IF browserPool = << >> THEN << >> ELSE queue
    /\ UNCHANGED << browserPool, activeBrowsers, poolRest, fetchVars, calcVars,
                    rowVars, docVars, loginVars, frontVars >>

(* a browser.close() of cleanup() returns: the finally of recycleBrowser   *)
(* removes the browser; after the last one Promise.all resolves and        *)
(* queue = [].                                                             *)
CleanupCloseDone(id) ==
    /\ shutPc = "closing"
    /\ id \in shutClosing
    /\ shutClosing' = shutClosing \ {id}
    /\ activeBrowsers' = RemoveBrowser(Cur, id).active
    /\ browserPool' = RemoveBrowser(Cur, id).pool
    /\ shutPc' = IF shutClosing = {id} THEN "done" ELSE "closing"
    /\ queue' = IF shutClosing = {id} THEN << >> ELSE queue
    /\ UNCHANGED << poolRest, fetchVars, calcVars, rowVars, docVars, loginVars, frontVars >>

(* Time passes by d milliseconds, at most n times.  The code reads the     *)
(* clock only to compare it with the lastUsedAt of a pooled browser or the *)
(* timestamp of a cache entry, so time is advanced only while there is     *)
(* one.                                                                    *)
Tick(d, n) ==
    /\ now < n * d
    /\ now' = now + d
    /\ browserPool # << >> \/ DOMAIN cache # {}
    /\ Commit(Cur)
    /\ UNCHANGED << sweepToClose, nextTask >>

----------------------------------------------------------------------------
(* Actions of the datewise route and of scrapeDatewiseAttendance *)

(* POST /api/attendance/datewise with a valid body: the route calls        *)
(* scrapeDatewiseAttendance, which answers from the cache or calls         *)
(* withBrowser, and arms the timeout.                                      *)
Request(u, d, p) ==
    /\ nextTask + 1 \in Tasks
    /\ nextTask' = nextTask + 1
    /\ LET t  == nextTask + 1
           D0 == [ Cur EXCEPT !.kind[t] = "scrape",
                              !.req[t] = [ username |-> u, dateToFetch |-> d,
                                           password |-> p ],
                              !.startedAt[t] = now,
                              !.seenTs[t] =
                                  IF CacheKey(u, d) \in DOMAIN cache
                                  THEN cache[CacheKey(u, d)].timestamp ELSE -1,
                              !.timer[t] = "armed",
                              !.cache = CacheAfterGet(@, u, d) ]
       IN  IF GetCached(cache, u, d) # NoReq
           THEN Commit(ScrapeSettled(D0, t, "ok"))
           ELSE Commit(TaskGot(D0, t, AcquireBrowser(D0)))
    /\ UNCHANGED << now, sweepToClose >>

(* setTimeout(..., SCRAPE_TIMEOUT_MS) fires before the scrape has settled: *)
(* timeoutPromise rejects, Promise.race rejects, the catch block answers.  *)
TimeoutFires(t) ==
    /\ timer[t] = "armed"
    /\ Commit([ Cur EXCEPT !.timer[t] = "fired",
                           !.status[t] = StatusFor(MsgScrapeTimeout) ])
    /\ UNCHANGED << now, sweepToClose, nextTask >>

(* scrapeWithDirectPuppeteer: puppeteer.launch resolves, the login begins *)
DirectLaunched(t) ==
    /\ pc[t] = "direct_launch"
    /\ Commit([ Cur EXCEPT !.pc[t] = "direct_run", !.directOpen[t] = TRUE,
                           !.scrapes[t] = @ + 1 ])
    /\ UNCHANGED << now, sweepToClose, nextTask >>

(* scrapeWithDirectPuppeteer: puppeteer.launch rejects; browser is null in *)
(* the finally block; the caller throws its 'Browser service unavailable'. *)
DirectLaunchFailed(t) ==
    /\ pc[t] = "direct_launch"
    /\ Commit(ScrapeSettled(Cur, t, MsgBothFailed))
    /\ UNCHANGED << now, sweepToClose, nextTask >>

(* mutant: an error of the direct scrape skips the finally block *)
DirectDoneLeak(t, ok) ==
    /\ pc[t] = "direct_run"
    /\ IF ok
       THEN Commit([ WriteCache(Cur, t) EXCEPT !.pc[t] = "direct_close_ok" ])
       ELSE Commit(ScrapeSettled(Cur, t, MsgBothFailed))
    /\ UNCHANGED << now, sweepToClose, nextTask >>

(* scrapeWithDirectPuppeteer: the scrape ends (setCache on success), the   *)
(* finally block starts browser.close()                                    *)
DirectDone(t, ok) ==
    /\ pc[t] = "direct_run"
    /\ LET D0 == IF ok THEN WriteCache(Cur, t) ELSE Cur
       IN  Commit([ D0 EXCEPT !.pc[t] = IF ok THEN "direct_close_ok"
                                             ELSE "direct_close_err" ])
    /\ UNCHANGED << now, sweepToClose, nextTask >>

(* scrapeWithDirectPuppeteer: browser.close() returns; the result is       *)
(* returned, or the error is replaced by 'Browser service unavailable'.    *)
DirectClosed(t) ==
    /\ pc[t] \in {"direct_close_ok", "direct_close_err"}
    /\ Commit(ScrapeSettled([ Cur EXCEPT !.directOpen[t] = FALSE ], t,
                            IF pc[t] = "direct_close_ok" THEN "ok"
                            ELSE MsgBothFailed))
    /\ UNCHANGED << now, sweepToClose, nextTask >>

----------------------------------------------------------------------------
(* The pool under arbitrary callers of withBrowser *)

(* the state of the datewise service and route before any request *)
InitScrape(n) ==
    /\ FetchIdle
    /\ CalcIdle
    /\ RowsIdle
    /\ DocIdle
    /\ ShutIdle
    /\ LoginIdle
    /\ FrontIdle
    /\ req = [ t \in 1..n |-> NoReq ]
    /\ cache = << >>
    /\ timer = [ t \in 1..n |-> "off" ]
    /\ status = [ t \in 1..n |-> 0 ]
    /\ sres = [ t \in 1..n |-> "none" ]
    /\ scrapes = [ t \in 1..n |-> 0 ]
    /\ directTries = [ t \in 1..n |-> 0 ]
    /\ directOpen = [ t \in 1..n |-> FALSE ]
    /\ startedAt = [ t \in 1..n |-> -1 ]
    /\ seenTs = [ t \in 1..n |-> -1 ]

InitN(n) ==
    /\ browserPool = << >>
    /\ activeBrowsers = {}
    /\ queue = << >>
    /\ processingQueue = FALSE
    /\ consecutiveFailures = 0
    /\ dpc = "idle"
    /\ dToClose = << >>
    /\ sweepToClose = << >>
    /\ closing = {}
    /\ nextId = 0
    /\ now = 0
    /\ nextTask = 0
    /\ kind = [ t \in 1..n |-> "none" ]
    /\ pc = [ t \in 1..n |-> "new" ]
    /\ lease = [ t \in 1..n |-> 0 ]
    /\ toClose = [ t \in 1..n |-> << >> ]
    /\ result = [ t \in 1..n |-> "none" ]
    /\ relCount = [ t \in 1..n |-> 0 ]
    /\ dispatched = {}
    /\ blocked = [ t \in 1..n |-> 0 ]
    /\ InitScrape(n)

Init == InitN(MaxTasks)

PoolEvents ==
    \/ \E t \in Tasks : TaskCloseDone(t)
    \/ \E t \in Tasks : TaskCreated(t)
    \/ \E t \in Tasks : TaskCreateFailed(t)
    \/ DrainCloseDone
    \/ DrainCreated
    \/ DrainCreateFailed
    \/ BackoffDone
    \/ \E id \in closing : RecycleCloseDone(id)
    \/ \E id \in Ids(browserPool) : Disconnected(id)
    \/ Sweep
    \/ SweepCloseDone

Next ==
    \/ Submit("raw")
    \/ \E t \in Tasks, out \in RawOutcomes : TaskDone(t, out)
    \/ PoolEvents
    \/ Tick(SWEEP_INTERVAL, MaxIdleTicks)

Spec == Init /\ [][Next]_vars

----------------------------------------------------------------------------
(* The pool from a state in which nb browsers are open and each serves     *)
(* MAX_PAGES_PER_BROWSER running tasks, with nfree calls of withBrowser    *)
(* still to come: the state reached from the empty pool by                 *)
(* nb * MAX_PAGES_PER_BROWSER calls of withBrowser that each found or      *)
(* created a browser at once.                                              *)

BrowserOf(t) == ((t - 1) \div MAX_PAGES_PER_BROWSER) + 1

InitLoaded(nb, nfree) ==
    LET npre == nb * MAX_PAGES_PER_BROWSER
        n    == npre + nfree
    IN
    /\ browserPool = [ i \in 1..nb |->
                         [ id |-> i, lastUsedAt |-> 0,
                           pageCount |-> MAX_PAGES_PER_BROWSER ] ]
    /\ activeBrowsers = 1..nb
    /\ queue = << >>
    /\ processingQueue = FALSE
    /\ consecutiveFailures = 0
    /\ dpc = "idle"
    /\ dToClose = << >>
    /\ sweepToClose = << >>
    /\ closing = {}
    /\ nextId = nb
    /\ now = 0
    /\ nextTask = npre
    /\ kind = [ t \in 1..n |-> IF t <= npre THEN "raw" ELSE "none" ]
    /\ pc = [ t \in 1..n |-> IF t <= npre THEN "running" ELSE "new" ]
    /\ lease = [ t \in 1..n |-> IF t <= npre THEN BrowserOf(t) ELSE 0 ]
    /\ toClose = [ t \in 1..n |-> << >> ]
    /\ result = [ t \in 1..n |-> "none" ]
    /\ relCount = [ t \in 1..n |-> 0 ]
    /\ dispatched = {}
    /\ blocked = [ t \in 1..n |-> 0 ]
    /\ InitScrape(n)

(* The tasks that share a browser in InitLoaded are interchangeable; they  *)
(* are taken to finish in the order of their numbers.  Tasks 1..npre are   *)
(* the ones that never were "new".                                         *)
InTurn(t, npre) ==
    \A s \in 1..(t - 1) :
        (t <= npre /\ BrowserOf(s) = BrowserOf(t)) => pc[s] = "done"

TaskDoneInTurn(t, out, npre) == InTurn(t, npre) /\ TaskDone(t, out)

(* one full browser *)
InitOne == InitLoaded(1, LoadedFree)

NextOne ==
    \/ Submit("raw")
    \/ \E t \in Tasks, out \in RawOutcomes :
          TaskDoneInTurn(t, out, MAX_PAGES_PER_BROWSER)
    \/ PoolEvents
    \/ Tick(SWEEP_INTERVAL, MaxTicks)

SpecOne == InitOne /\ [][NextOne]_vars

(* the full pool *)
InitFull == InitLoaded(MAX_BROWSERS, FullFree)

NextFull ==
    \/ Submit("raw")
    \/ \E t \in Tasks, out \in RawOutcomes :
          TaskDoneInTurn(t, out, MAX_BROWSERS * MAX_PAGES_PER_BROWSER)
    \/ PoolEvents
    \/ Tick(SWEEP_INTERVAL, MaxTicks)

SpecFull == InitFull /\ [][NextFull]_vars

----------------------------------------------------------------------------
(* Quantities the properties speak about *)

(* number of leases handed out on browser id and not yet released *)
LeasesOn(id) == Cardinality({ t \in Tasks : pc[t] = "running" /\ lease[t] = id })

Pos(q, t) == CHOOSE i \in 1..Len(q) : q[i] = t

InQueue(q) == { q[i] : i \in 1..Len(q) }

----------------------------------------------------------------------------
(* C1: the number of simultaneously open pooled browsers (entries of       *)
(* activeBrowsers / browserPool) never exceeds MAX_BROWSERS.               *)
C1_BrowserCap ==
    /\ Cardinality(activeBrowsers) <= MAX_BROWSERS
    /\ Len(browserPool) <= MAX_BROWSERS

(* C3: at every moment the number of outstanding leases on any single      *)
(* browser is at most MAX_PAGES_PER_BROWSER.                               *)
C3_LeaseCap ==
    \A id \in 1..nextId : LeasesOn(id) <= MAX_PAGES_PER_BROWSER

(* a call made on the full pool holds, after a release, one of the         *)
(* MAX_PAGES_PER_BROWSER leases of a browser                               *)
C3_Witness ==
    \E t \in Tasks :
        /\ t > MAX_PAGES_PER_BROWSER
        /\ pc[t] = "running"
        /\ lease[t] \in Ids(browserPool)
        /\ LeasesOn(lease[t]) = MAX_PAGES_PER_BROWSER

(* C4 as stated: a task queued on the full pool does not run before a      *)
(* releaseBrowser() has lowered a lease count below the cap.               *)
C4_QueuedWaitsForRelease ==
    \A t \in Tasks : blocked[t] # 0 => pc[t] # "running"

(* C4 amended: on the full pool acquireBrowser() returns null at once (the *)
(* call is queued in the step in which it is made), and a task queued at   *)
(* that moment that runs although no releaseBrowser() has lowered a lease  *)
(* count below the cap since, runs on a browser launched after it was      *)
(* queued (in place of one that has left the pool).                        *)
C4_FullPoolQueues ==
    /\ [][ (IsFull(browserPool) /\ nextTask' = nextTask + 1)
            => pc'[nextTask'] = "queued" ]_vars
    /\ [](\A t \in Tasks :
            (blocked[t] # 0 /\ pc[t] = "running") => lease[t] > blocked[t])

(* a task queued on the full pool runs after a release has made room *)
C4_Witness ==
    \E t \in dispatched, s \in Tasks :
        /\ t > MAX_BROWSERS * MAX_PAGES_PER_BROWSER
        /\ pc[t] = "running"
        /\ blocked[t] = 0
        /\ relCount[s] = 1
        /\ lease[t] <= MAX_BROWSERS

(* C5: the third consecutive failure of the drainer's acquireBrowser()     *)
(* rejects every queued task with the 'Browser service unavailable' error  *)
(* and leaves the queue empty; the drainer stops (no fourth attempt).      *)
C5_Escalation ==
    /\ [](consecutiveFailures <= MAX_CONSECUTIVE_FAILURES)
    /\ []((consecutiveFailures = MAX_CONSECUTIVE_FAILURES)
            => (queue = << >> /\ ~processingQueue /\ dpc = "idle"))
    /\ [][ (consecutiveFailures' = 3 /\ consecutiveFailures # 3)
             => \A t \in InQueue(queue) :
                    pc'[t] = "done" /\ result'[t] = MsgQueueUnavailable ]_vars

(* two queued tasks were rejected together by the third failure *)
C5_Witness ==
    /\ consecutiveFailures = 3
    /\ Cardinality({ t \in Tasks : result[t] = MsgQueueUnavailable }) >= 2

(* C6 as stated: a task submitted after a queued task never starts while   *)
(* that task is still waiting in the queue.                                *)
C6_StrictFifo ==
    [][ \A a, b \in Tasks :
          (a < b /\ pc[a] = "queued" /\ pc'[a] = "queued")
            => ~(pc[b] # "running" /\ pc'[b] = "running") ]_vars

(* C6 amended: tasks leave the queue in the order in which they entered    *)
(* it - the queue only loses a prefix and gains entries at its end, and a  *)
(* task the drainer starts was ahead of every task that stays queued.      *)
C6_QueueFifo ==
    [][ /\ \E k \in 0..Len(queue) :
              /\ Len(queue') >= Len(queue) - k
              /\ \A i \in 1..(Len(queue) - k) : queue'[i] = queue[k + i]
        /\ \A a, b \in InQueue(queue) :
              (Pos(queue, a) < Pos(queue, b) /\ pc'[b] # "queued")
                => pc'[a] # "queued" ]_vars

(* the drainer has started a task while another one is still queued *)
C6_Witness ==
    \E a \in dispatched : pc[a] = "running" /\ queue # << >>

----------------------------------------------------------------------------
(* The datewise route over the pool *)

InitReq == InitN(MaxRequests)

ScrapeEvents ==
    \/ \E u \in Users, d \in Dates : Request(u, d, "right")
    \/ \E t \in Tasks : TimeoutFires(t)
    \/ \E t \in Tasks, out \in ScrapeOutcomes : TaskDone(t, out)
    \/ \E t \in Tasks : DirectLaunched(t)
    \/ \E t \in Tasks : DirectLaunchFailed(t)
    \/ \E t \in Tasks, ok \in BOOLEAN : DirectDone(t, ok)
    \/ \E t \in Tasks : DirectClosed(t)

NextReq ==
    \/ ScrapeEvents
    \/ PoolEvents
    \/ Tick(CACHE_TTL \div 2, MaxCacheTicks)

SpecReq == InitReq /\ [][NextReq]_vars

(* The datewise route called for one date with a password that the LMS     *)
(* accepts or rejects.  The LMS answers a rejected login with its login    *)
(* page again: the task finds loggedIn false, logs a warning and goes on.  *)
InitCred == InitN(MaxRequests)

CredEvents ==
    \/ \E u \in Users, p \in Passwords : Request(u, "d1", p)
    \/ \E t \in Tasks : TimeoutFires(t)
    \/ \E t \in Tasks, out \in ScrapeOutcomes : TaskDone(t, out)
    \/ \E t \in Tasks : DirectLaunched(t)
    \/ \E t \in Tasks : DirectLaunchFailed(t)
    \/ \E t \in Tasks, ok \in BOOLEAN : DirectDone(t, ok)
    \/ \E t \in Tasks : DirectClosed(t)

NextCred ==
    \/ CredEvents
    \/ PoolEvents
    \/ Tick(CACHE_TTL \div 2, MaxCacheTicks)

SpecCred == InitCred /\ [][NextCred]_vars

(* One call of fetchDatewiseAttendance against every page and every
   sequence of responses. *)
InitFetch == InitN(0)

NextFetch ==
    \/ \E d \in FetchDates : FetchStart(d)
    \/ \E how \in { "throw", "status", "login", "page" }, page \in Pages :
          PageReceived(how, page)
    \/ \E r \in EndpointResponses : EndpointResponded(r)
    \/ \E r \in FormResponses : FormResponded(r)

SpecFetch == InitFetch /\ [][NextFetch]_vars

(* The scrape job for one table row, over every row text. *)
InitCalc == InitN(0)

NextCalc ==
    \/ \E c \in Cells : ParseAttendanceRows(c)
    \/ Processed

SpecCalc == InitCalc /\ [][NextCalc]_vars

(* The leave predictor of the dashboard on the record the job made of a row. *)
InitDash == InitN(0)

NextDash ==
    \/ \E c \in Cells : ParseAttendanceRows(c)
    \/ Processed
    \/ \E leave \in Leaves : Predict(leave)

SpecDash == InitDash /\ [][NextDash]_vars

(* Calls of fetchAttendance, one after the other, against every answer of   *)
(* the server.  Every fetch settles and every timer fires.                  *)
InitPoll == InitN(0)

NextPoll ==
    \/ \E hasToken \in BOOLEAN : FetchAttendance(hasToken)
    \/ \E resp \in Responses : Responded(resp)
    \/ BackoffElapsed
    \/ \E ok \in BOOLEAN : SampleSettled(ok)

\* a fetch that settles, a timer that fires
PollProgress ==
    \/ \E resp \in Responses : Responded(resp)
    \/ BackoffElapsed
    \/ \E ok \in BOOLEAN : SampleSettled(ok)

SpecPoll == InitPoll /\ [][NextPoll]_vars /\ WF_vars(PollProgress)

(* parseDatewiseAttendanceRows at one row, over every row of the vocabulary. *)
InitRows == InitN(0)

NextRows ==
    /\ rpc = "idle"
    /\ \E n \in 1..MaxCells, th \in BOOLEAN :
          \E tds \in TrsOf(n) : ParseRow(Tr(th, tds))

SpecRows == InitRows /\ [][NextRows]_vars

(* The pool from its empty state with a shutdown at any moment, within the *)
(* first BROWSER_IDLE_TIMEOUT, so that no browser is idle for a sweep.     *)
(* ShutProgress is what the program is waiting for: a launch or a close    *)
(* returns, the backoff timer fires, a task ends.  Each of these happens   *)
(* once it is due; a new call or a shutdown need not happen.               *)
InitShut == InitN(ShutTasks)

ShutProgress ==
    \/ \E t \in Tasks, out \in RawOutcomes : TaskDone(t, out)
    \/ \E t \in Tasks : TaskCreated(t)
    \/ \E t \in Tasks : TaskCreateFailed(t)
    \/ DrainCreated
    \/ DrainCreateFailed
    \/ BackoffDone
    \/ \E id \in closing : RecycleCloseDone(id)
    \/ \E id \in shutClosing : CleanupCloseDone(id)

NextShut ==
    \/ Submit("raw")
    \/ Cleanup
    \/ ShutProgress

SpecShut == InitShut /\ [][NextShut]_vars

InitShutLive == InitN(LiveTasks)

SpecShutLive == InitShutLive /\ [][NextShut]_vars /\ WF_vars(ShutProgress)

(* Logins of two users, their jobs, and one GET /api/attendance. *)
InitLogin == InitN(0)

NextLogin ==
    \/ \E r \in Logins, u \in LoginUsers : Login(r, u)
    \/ \E r \in Logins, n \in RowCounts, ok \in BOOLEAN : ScrapeDone(r, n, ok)
    \/ \E r \in Logins, ok \in BOOLEAN : DeleteOld(r, ok)
    \/ \E r \in Logins, ok \in BOOLEAN : InsertRows(r, ok)
    \/ \E r \in Logins, ok \in BOOLEAN : SnapshotDone(r, ok)
    \/ LoginTick
    \/ \E u \in LoginUsers : GetSnapshot(u)
    \/ GetRows

SpecLogin == InitLogin /\ [][NextLogin]_vars

(* parseDatewiseAttendanceRows over every document. *)
InitDoc == InitN(0)

NextDoc ==
    /\ ppc = "idle"
    /\ \/ \E h \in Falsy : ParseFalsy(h)
       \/ \E box \in BOOLEAN : \E doc \in DocsOf(box) : ParseHtmlDoc(doc)

SpecDoc == InitDoc /\ [][NextDoc]_vars

----------------------------------------------------------------------------
(* the withBrowser promise of t was settled by the handlers of its task *)
TaskEnded(t) == result[t] \notin {"none", MsgQueueUnavailable}

(* C2: every lease is released exactly once on every exit path of the task *)
(* - success, task error, and when the request has timed out meanwhile: a  *)
(* lease is outstanding exactly while its task runs, no release is made    *)
(* before the task ends, exactly one has been made once it has ended.      *)
(* (The task ends because puppeteer bounds every page operation by a       *)
(* timeout.)                                                               *)
C2_ReleasedOnce ==
    \A t \in Tasks :
        /\ relCount[t] <= 1
        /\ lease[t] # 0 <=> pc[t] = "running"
        /\ pc[t] = "running" => relCount[t] = 0
        /\ TaskEnded(t) <=> relCount[t] = 1

(* the lease of a request was released after the request had timed out and *)
(* its task had failed                                                     *)
C2_Witness ==
    \E t \in Tasks :
        /\ timer[t] = "fired"
        /\ relCount[t] = 1
        /\ result[t] = MsgNavTimeout

(* C7 as stated: two calls for the same (username, date) that start within *)
(* the cache lifetime of each other and both return a result have caused   *)
(* one upstream scrape in total.                                           *)
SameKey(a, b) ==
    /\ req[a] # NoReq
    /\ CacheKey(req[a].username, req[a].dateToFetch)
         = CacheKey(req[b].username, req[b].dateToFetch)

C7_OneScrape ==
    \A a, b \in Tasks :
        ( /\ a # b
          /\ SameKey(a, b)
          /\ status[a] = 200 /\ status[b] = 200
          /\ startedAt[a] - startedAt[b] < CACHE_TTL
          /\ startedAt[b] - startedAt[a] < CACHE_TTL )
        => scrapes[a] + scrapes[b] = 1

(* C7 amended: a call made while the cache holds an entry for its          *)
(* (username, date) that is younger than CACHE_TTL is answered from the    *)
(* cache and starts no upstream scrape.                                    *)
C7_CachedNoScrape ==
    \A t \in Tasks :
        (seenTs[t] >= 0 /\ startedAt[t] - seenTs[t] < CACHE_TTL)
        => (scrapes[t] = 0 /\ status[t] = 200 /\ sres[t] = "ok")

(* a second call for the same pair, half a cache lifetime after the first  *)
(* one wrote its result, was answered without a scrape                     *)
C7_Witness ==
    \E a, b \in Tasks :
        /\ a # b
        /\ SameKey(a, b)
        /\ scrapes[a] = 1 /\ status[a] = 200
        /\ seenTs[b] >= 0 /\ startedAt[b] > seenTs[b]
        /\ scrapes[b] = 0 /\ status[b] = 200

(* the errors of the resource-unavailability and connection-reset class *)
FallbackClass == { MsgNotAvailable, MsgQueueUnavailable, MsgEconnreset }

(* C8: scrapeWithDirectPuppeteer is called if and only if the pooled path  *)
(* failed with an error of the unavailability / connection-reset class,    *)
(* and then once; any other pooled error is the error of the call.         *)
C8_FallbackIff ==
    \A t \in Tasks :
        kind[t] = "scrape" =>
            /\ directTries[t] <= 1
            /\ directTries[t] = 1 <=> result[t] \in FallbackClass
            /\ (result[t] \notin FallbackClass \cup {"none", "ok"})
                 => (pc[t] = "done" /\ sres[t] = result[t])

(* a fallback after a connection reset, and a propagated other error *)
C8_Witness ==
    \E a, b \in Tasks :
        /\ result[a] = MsgEconnreset /\ directTries[a] = 1 /\ pc[a] = "done"
        /\ result[b] = MsgNavTimeout /\ directTries[b] = 0 /\ pc[b] = "done"

(* C9: once the timeout of a request has fired, its scrape is not running  *)
(* any more: it has ended (so that it writes the cache no more) and holds  *)
(* no lease and no fallback browser.                                       *)
C9_TimeoutStopsScrape ==
    \A t \in Tasks :
        timer[t] = "fired" => (lease[t] = 0 /\ ~directOpen[t] /\ pc[t] = "done")

(* C10: a request whose timeout fired is answered with status 504 *)
C10_Timeout504 ==
    \A t \in Tasks : timer[t] = "fired" => status[t] = 504

----------------------------------------------------------------------------
(* the call ran a scrape to its end with a password the LMS rejected, and  *)
(* the route answered it                                                   *)
LoginRejected(t) ==
    /\ req[t].password = "wrong"
    /\ scrapes[t] >= 1
    /\ sres[t] = "ok"
    /\ status[t] # 0
    /\ timer[t] = "off"

(* C11: the route answers 503 when both tiers failed and 401 when the LMS  *)
(* rejected the credentials.                                               *)
C11_StatusClasses ==
    \A t \in Tasks :
        /\ (sres[t] = MsgBothFailed /\ timer[t] = "off") => status[t] = 503
        /\ LoginRejected(t) => status[t] = 401

----------------------------------------------------------------------------
HeadOf(q) == IF q = << >> THEN {} ELSE { Head(q) }

(* the pooled browsers on which recycleBrowser has called browser.close()  *)
(* and waits for it: after a task error, by the sweep of the interval      *)
(* timer, by the sweep of a withBrowser call and by that of the drainer    *)
BeingClosed ==
    closing \cup HeadOf(sweepToClose) \cup HeadOf(dToClose)
            \cup UNION { HeadOf(toClose[t]) : t \in Tasks }

(* C12: browser.close() is called on a pooled browser only when no task    *)
(* holds a lease on it.                                                    *)
C12_ClosedOnlyIdle ==
    [][ \A id \in BeingClosed' \ BeingClosed : LeasesOn(id)' = 0 ]_vars

----------------------------------------------------------------------------
(* C13: the releaseBrowser() that follows on a browser that has reached    *)
(* MAX_PAGES_PER_BROWSER leases recycles it: browser.close() is called on  *)
(* it, or it has left the pool.                                            *)
C13_ReleaseRecyclesAtCap ==
    [][ \A t \in Tasks :
          ( /\ relCount'[t] = relCount[t] + 1
            /\ \E i \in 1..Len(browserPool) :
                  /\ browserPool[i].id = lease[t]
                  /\ browserPool[i].pageCount = MAX_PAGES_PER_BROWSER )
          => (lease[t] \in closing' \/ lease[t] \notin Ids(browserPool')) ]_vars

----------------------------------------------------------------------------
(* the browsers on which a cleanupIdleBrowsers() run is waiting for        *)
(* browser.close()                                                         *)
SweepHeads ==
    HeadOf(sweepToClose) \cup HeadOf(dToClose)
        \cup UNION { HeadOf(toClose[t]) : t \in Tasks }

(* C14: cleanupIdleBrowsers calls browser.close() only on a pooled browser *)
(* that has no lease and was last used more than BROWSER_IDLE_TIMEOUT ago, *)
(* and the sweep of the interval timer takes exactly the browsers of the   *)
(* pool that are in this state.                                            *)
(* (A browser expires while a sweep that started earlier is waiting for a  *)
(* close after the clock has passed BROWSER_IDLE_TIMEOUT + SWEEP_INTERVAL, *)
(* hence MaxIdleTicks.)                                                    *)
C14_SweepClosesIdle ==
    [][ /\ \A id \in SweepHeads' \ SweepHeads :
              /\ LeasesOn(id)' = 0
              /\ \A i \in 1..Len(browserPool') :
                    browserPool'[i].id = id
                      => /\ browserPool'[i].pageCount = 0
                         /\ now' - browserPool'[i].lastUsedAt > BROWSER_IDLE_TIMEOUT
        /\ (sweepToClose = << >> /\ sweepToClose' # << >>)
              => { sweepToClose'[i] : i \in 1..Len(sweepToClose') }
                   = { browserPool[i].id : i \in
                         { j \in 1..Len(browserPool) :
                             /\ browserPool[j].pageCount = 0
                             /\ now - browserPool[j].lastUsedAt
                                  > BROWSER_IDLE_TIMEOUT
                             /\ browserPool[j].id \in activeBrowsers } } ]_vars

----------------------------------------------------------------------------
(* C15: when the launch of a browser fails, acquireBrowser() returns null  *)
(* and the pool is as before: no entry of browserPool or activeBrowsers is *)
(* added or removed; the withBrowser call is queued, the drainer counts a  *)
(* failure.                                                                *)
C15_CreateFailureIsNull ==
    [][ /\ \A t \in Tasks :
              (pc[t] = "creating" /\ pc'[t] # "creating" /\ nextId' = nextId)
                => /\ Ids(browserPool') = Ids(browserPool)
                   /\ activeBrowsers' = activeBrowsers
                   /\ pc'[t] = "queued" \/ t \in dispatched'
        /\ (dpc = "creating" /\ dpc' # "creating" /\ nextId' = nextId)
              => /\ Ids(browserPool') = Ids(browserPool)
                 /\ activeBrowsers' = activeBrowsers
                 /\ consecutiveFailures' = consecutiveFailures + 1 ]_vars

(* the launch failed for a withBrowser call and then for the drainer: the  *)
(* call is queued, the pool is empty, the drainer waits in its backoff     *)
C15_Witness ==
    /\ \E t \in Tasks : pc[t] = "queued"
    /\ nextId = 0
    /\ browserPool = << >>
    /\ consecutiveFailures = 1
    /\ dpc = "backoff"

----------------------------------------------------------------------------
KeyOf(t) == CacheKey(req[t].username, req[t].dateToFetch)

(* the scrapeDatewiseAttendance call t has ended in an error *)
CallFailed(t) == sres[t] \notin {"none", "ok"}

(* the getCached of call t found an expired entry for its key and deleted  *)
(* it                                                                      *)
Evicted(t) == seenTs[t] >= 0 /\ ~(startedAt[t] - seenTs[t] < CACHE_TTL)

(* C16 as stated, second half: a call that ends in an error has left the   *)
(* cache unchanged.                                                        *)
C16_ErrorLeavesCache ==
    \A t \in Tasks : CallFailed(t) => ~Evicted(t)

(* in this step the scrape of call t, in the pool or in the fallback, has  *)
(* completed and stored its result under k                                 *)
Wrote(t, k) ==
    /\ k = KeyOf(t)
    /\ cache'[k] = [ data |-> req[t], timestamp |-> now ]
    /\ \/ pc[t] = "running" /\ result'[t] = "ok" /\ sres'[t] = "ok"
       \/ pc[t] = "direct_run" /\ pc'[t] = "direct_close_ok"

(* C16 amended: an entry is written only by a scrape of its pair that has  *)
(* completed, and the call of that scrape returns its result; a call that  *)
(* ends in an error writes nothing.  Entries disappear only by the         *)
(* deletion of an expired entry, which the lookup of any call for that     *)
(* pair does, whatever the end of the call.                                *)
C16_WrittenOnSuccess ==
    /\ [][ /\ \A k \in DOMAIN cache' :
                (k \notin DOMAIN cache \/ cache'[k] # cache[k])
                  => \E t \in Tasks : Wrote(t, k)
           /\ \A k \in DOMAIN cache \ DOMAIN cache' :
                ~(now - cache[k].timestamp < CACHE_TTL)
           /\ \A t \in Tasks :
                (pc[t] = "direct_close_ok" /\ pc'[t] # pc[t])
                  => sres'[t] = "ok" ]_vars
    /\ [](\A t \in Tasks : CallFailed(t) => pc[t] = "done")

(* a call for one date has failed after a scrape and left no entry, while  *)
(* the successful call for the other date has left its entry               *)
C16_Witness ==
    \E t, s \in Tasks :
        /\ CallFailed(t) /\ scrapes[t] >= 1
        /\ sres[s] = "ok" /\ scrapes[s] = 1
        /\ req[s].dateToFetch # req[t].dateToFetch
        /\ DOMAIN cache = { KeyOf(s) }

----------------------------------------------------------------------------
(* the call t was answered by getCached, without a scrape *)
ServedFromCache(t) ==
    sres[t] = "ok" /\ scrapes[t] = 0 /\ directTries[t] = 0

(* C17: getCached returns no entry whose age is CACHE_TTL or more: the     *)
(* call that looks up such an entry is not answered from the cache, and    *)
(* the entry is deleted by that lookup; a call answered from the cache saw *)
(* an entry younger than CACHE_TTL.                                        *)
C17_NoStaleHit ==
    /\ [][ \A t \in Tasks :
             ( /\ req[t] = NoReq /\ req'[t] # NoReq
               /\ KeyOf(t)' \in DOMAIN cache
               /\ now - cache[KeyOf(t)'].timestamp >= CACHE_TTL )
             => (sres'[t] = "none" /\ KeyOf(t)' \notin DOMAIN cache') ]_vars
    /\ [](\A t \in Tasks :
            ServedFromCache(t)
              => (seenTs[t] >= 0 /\ startedAt[t] - seenTs[t] < CACHE_TTL))

(* a call found the entry of its pair at the age of exactly CACHE_TTL and  *)
(* scraped                                                                 *)
C17_Witness ==
    \E t \in Tasks :
        /\ seenTs[t] >= 0
        /\ startedAt[t] - seenTs[t] = CACHE_TTL
        /\ scrapes[t] = 1

----------------------------------------------------------------------------
(* C18: the browser launched by scrapeWithDirectPuppeteer is open only     *)
(* while that function runs - it has been closed whenever the call has     *)
(* returned or thrown - and it is never added to browserPool or            *)
(* activeBrowsers.                                                         *)
C18_DirectBrowserClosed ==
    /\ [](\A t \in Tasks :
            /\ sres[t] # "none" => ~directOpen[t]
            /\ directOpen[t] =>
                  pc[t] \in {"direct_run", "direct_close_ok", "direct_close_err"})
    /\ [][ \A t \in Tasks :
             (pc[t] = "direct_launch" /\ pc'[t] # pc[t])
               => (browserPool' = browserPool /\ activeBrowsers' = activeBrowsers) ]_vars

(* a fallback browser was launched, its scrape threw, and the call ended   *)
(* with the browser closed                                                 *)
C18_Witness ==
    \E t \in Tasks :
        /\ directTries[t] = 1
        /\ scrapes[t] = 2
        /\ sres[t] = MsgBothFailed
        /\ ~directOpen[t]

----------------------------------------------------------------------------
(* the form submission was answered with a body that is not the attendance
   page again, going by its length *)
FormAnswered ==
    /\ fpc = "done"
    /\ submitted = 1
    /\ lastResponse.kind = "text"
    /\ lastResponse.html.len # attendancePageHtml.len

(* C19: a call of fetchDatewiseAttendance whose last upstream response holds
   no attendance table, or a table without data rows, returns the empty row
   list and does not throw *)
C19_EmptyIsSuccess ==
    (FormAnswered /\ parseDatewiseAttendanceRows(lastResponse.html) = 0)
        => fetched = Returned(0, FALSE)

----------------------------------------------------------------------------
StaticUrls == MapUrl(StaticPaths) \o << ATT_PAGE >>

PositionIn(a, v) == CHOOSE i \in 1..Len(a) : a[i] = v

(* what the response r of an endpoint yields: rows parsed from its HTML, or
   the rows array of a JSON body without HTML *)
YieldsRows(r) ==
    \/ r.kind \in { "text", "json" } /\ parseDatewiseAttendanceRows(r.html) > 0
    \/ r.kind = "json" /\ r.html.len = 0 /\ r.rows > 0

(* the candidates are the endpoints found on the page, in the order found,
   then the static list in its order without the ones already named *)
DiscoveredFirst ==
    LET found == attendancePageHtml.found
        k == Len(found)
        n == Len(possibleEndpoints)
    IN  /\ n >= k
        /\ \A i \in 1..k : possibleEndpoints[i] = << LMS_BASE, found[i] >>
        /\ \A i \in (k + 1)..n :
              /\ \E j \in 1..Len(StaticUrls) : StaticUrls[j] = possibleEndpoints[i]
              /\ \A j \in 1..(i - 1) : possibleEndpoints[j] # possibleEndpoints[i]
        /\ \A i, j \in (k + 1)..n :
              i < j => PositionIn(StaticUrls, possibleEndpoints[i])
                          < PositionIn(StaticUrls, possibleEndpoints[j])
        /\ \A j \in 1..Len(StaticUrls) :
              \E i \in 1..n : possibleEndpoints[i] = StaticUrls[j]

(* C20: the candidates are POSTed to one at a time in list order, the
   endpoints found on the page before the static list; the call returns at
   the first endpoint whose response yields a row and contacts no candidate
   and submits no form after it *)
C20_InOrderUntilRows ==
    /\ [](fpc \in { "posting", "form" } => DiscoveredFirst)
    /\ [][ triedEndpoints' # triedEndpoints =>
              /\ Len(triedEndpoints') = Len(triedEndpoints) + 1
              /\ triedEndpoints' =
                    SubSeq(possibleEndpoints', 1, Len(triedEndpoints'))
              /\ triedEndpoints # << >> => ~YieldsRows(lastResponse') ]_vars
    /\ [][ (fpc = "posting" /\ YieldsRows(lastResponse')) =>
              /\ fpc' = "done"
              /\ fetched'.kind = "rows" /\ fetched'.rows >= 1
              /\ triedEndpoints' = triedEndpoints
              /\ submitted' = submitted ]_vars
    /\ [][ (fpc = "posting" /\ fpc' = "done") => YieldsRows(lastResponse') ]_vars

(* the call returned rows from a candidate that is neither the first nor the
   last, on a page that names two endpoints, one of them of the static list *)
C20_Witness ==
    /\ fpc = "done"
    /\ fetched.kind = "rows"
    /\ submitted = 0
    /\ Len(attendancePageHtml.found) = 2
    /\ Len(possibleEndpoints) = Len(StaticUrls) + 1
    /\ Len(triedEndpoints) > 2
    /\ Len(triedEndpoints) < Len(possibleEndpoints)

----------------------------------------------------------------------------
(* the URLs the forms of the page declare, and ATT_PAGE for a page without a
   form or with a form without an action *)
DeclaredActions(page) ==
    { << LMS_BASE, "/user/", page.forms[i].action >> :
        i \in { j \in 1..Len(page.forms) : page.forms[j].action # "" } }
      \cup { u \in { ATT_PAGE } :
                \/ page.forms = << >>
                \/ \E i \in 1..Len(page.forms) : page.forms[i].action = "" }

(* C21: the form is submitted only when every candidate has been tried and
   none yielded rows, to an action the page declares and with the payload
   the candidates were sent, and at most once in a call *)
C21_FormLastAndOnce ==
    /\ [](submitted <= 1 /\ Len(posted) = Len(triedEndpoints) + submitted)
    /\ [][ submitted' # submitted =>
              /\ submitted = 0 /\ submitted' = 1
              /\ triedEndpoints = possibleEndpoints
              /\ \A i \in 1..Len(possibleEndpoints) :
                    posted[i] = Post(possibleEndpoints[i], payload)
              /\ ~YieldsRows(lastResponse')
              /\ \E u \in DeclaredActions(attendancePageHtml) :
                    posted' = Append(posted, Post(u, posted[1].body)) ]_vars
    /\ [][ (fpc = "form" \/ fpc = "done") => posted' = posted ]_vars

(* the form of a page with two forms was submitted after the last candidate
   and its response held a row *)
C21_Witness ==
    /\ fpc = "done"
    /\ submitted = 1
    /\ Len(attendancePageHtml.forms) = 2
    /\ Len(posted) = Len(possibleEndpoints) + 1
    /\ fetched.kind = "rows" /\ fetched.rows = 1

----------------------------------------------------------------------------
(* the form submission was answered with a readable body *)
FormBody == fpc = "done" /\ submitted = 1 /\ lastResponse.kind = "text"

(* The body has the length of the attendance page, as an identical body
   has, or it shows the date inputs and no result container, as the
   attendance page does. *)
PageAgain ==
    \/ lastResponse.html.len = attendancePageHtml.len
    \/ /\ { "dob", "end_dob" } \subseteq lastResponse.html.text
       /\ "attendance_result" \notin lastResponse.html.text

(* C22: when the response of the form submission is the attendance page
   again, or is as empty of results as that page, the call throws the
   requires-JavaScript error and returns no rows, whatever rows the response
   holds; the error has no other cause *)
C22_SamePageIsError ==
    /\ (FormBody /\ PageAgain) => fetched = Thrown(MsgFormJs)
    /\ fetched = Thrown(MsgFormJs) => (FormBody /\ PageAgain)

(* both cases happened with a response that holds a data row *)
C22_Witness ==
    /\ FormBody
    /\ fetched = Thrown(MsgFormJs)
    /\ lastResponse.html.dataRows = 1
    /\ lastResponse.html.len # attendancePageHtml.len

----------------------------------------------------------------------------
(* the body carries the requested date as date and as end_date *)
CarriesDate(body, d) ==
    /\ { "date", "end_date" } \subseteq DOMAIN body
    /\ body["date"] = d
    /\ body["end_date"] = d

(* C23: whatever the attendance page holds, every static endpoint is a
   candidate, the form is submitted when the candidates gave no rows, and
   every POST carries a payload with date and end_date equal to the
   requested date, so the empty-payload error is never thrown *)
C23_FallbacksAndPayload ==
    /\ [](fpc \in { "posting", "form" } =>
            \A j \in 1..Len(StaticUrls) :
                \E i \in 1..Len(possibleEndpoints) :
                    possibleEndpoints[i] = StaticUrls[j])
    /\ [](\A i \in 1..Len(posted) : CarriesDate(posted[i].body, requested))
    /\ [](fetched # Thrown(MsgPayloadEmpty))
    /\ [][ (fpc = "posting" /\ triedEndpoints = possibleEndpoints
                            /\ ~YieldsRows(lastResponse')) =>
              (fpc' = "form" /\ submitted' = 1
                  /\ Len(posted') = Len(posted) + 1) ]_vars

(* on a page with no endpoint, no date input and no form, every static
   endpoint was tried and the form submission was made *)
C23_Witness ==
    /\ fpc = "form"
    /\ attendancePageHtml.found = << >>
    /\ attendancePageHtml.inputs = {}
    /\ attendancePageHtml.forms = << >>
    /\ triedEndpoints = StaticUrls
    /\ posted[Len(posted)] = Post(ATT_PAGE, payload)
    /\ DOMAIN payload = { "date", "end_date", "subject" }

----------------------------------------------------------------------------
(* (present + n) / (total + n) >= 0.75, in integers *)
AtLeastThreeQuarters(present, total, n) == 4 * (present + n) >= 3 * (total + n)

(* the job made a record of a row with 0 <= present <= total *)
CountsInOrder == processed.made /\ processed.present <= processed.total

(* C24: for 0 <= present <= total, computeRequired returns the smallest
   r >= 0 with (present + r)/(total + r) >= 0.75, which is 0 when the ratio
   is at least 75% already *)
C24_RequiredIsMinimal ==
    CountsInOrder =>
        /\ AtLeastThreeQuarters(processed.present, processed.total, processed.required)
        /\ \A n \in 0..(processed.required - 1) :
              ~AtLeastThreeQuarters(processed.present, processed.total, n)

(* C25: computeCanMiss is max(0, floor(present/0.75 - total)): the largest
   x >= 0 with present/(total + x) >= 0.75, and 0 when the ratio is below
   75% *)
C25_MarginIsLargest ==
    CountsInOrder =>
        LET present == processed.present
            total == processed.total
            x == processed.margin
        IN  /\ x >= 0
            /\ x = IF (4 * present) \div 3 - total > 0
                   THEN (4 * present) \div 3 - total ELSE 0
            /\ 4 * present >= 3 * total =>
                  /\ 4 * present >= 3 * (total + x)
                  /\ 4 * present < 3 * (total + x + 1)
            /\ 4 * present < 3 * total => x = 0
            /\ (present = 30 /\ total = 40) => x = 0

(* a row of 40 sessions out of 40: 13 more absences keep the ratio at 75% *)
C25_Witness ==
    /\ processed.made
    /\ processed.present = 40 /\ processed.total = 40
    /\ processed.margin = 13

(* C26: every record of the job has 0 <= present <= total and
   0 <= percent <= 100, whatever the ratio text and the percentage text *)
C26_RecordInRange ==
    processed.made =>
        /\ 0 <= processed.present
        /\ processed.present <= processed.total
        /\ 0 <= processed.percent
        /\ processed.percent <= 100 * 100

----------------------------------------------------------------------------
(* the cleaned text of cell i of the row *)
CellText(i) == cleanText(tr.tds[i].text)

(* the status of the pushed row is the one cell i states in words *)
StatusFrom(i) ==
    CellText(i) \in { "Present", "Absent", "Late" } =>
        datewiseRow.attendance = CellText(i)

(* C27: a pushed row of four or more cells is (subject, time from, time to,
   status) from its first four cells; a row of three cells whose middle cell
   is the range 09:00-10:00 has time from 09:00, time to 10:00 and its third
   cell as status; a row of two cells is (subject, status) *)
C27_ColumnsByCellCount ==
    datewiseRow.pushed =>
        LET n == Len(tr.tds)
        IN  /\ datewiseRow.subject = CellText(1)
            /\ n >= 4 =>
                  /\ datewiseRow.time_from = CellText(2)
                  /\ datewiseRow.time_to =
                        (IF CellText(3) = "No of session Completed 1/1"
                         THEN "1/1" ELSE CellText(3))
                  /\ StatusFrom(4)
            /\ (n = 3 /\ CellText(2) = "09:00-10:00") =>
                  /\ datewiseRow.time_from = "09:00"
                  /\ datewiseRow.time_to = "10:00"
                  /\ StatusFrom(3)
            /\ n = 2 =>
                  /\ datewiseRow.time_from = ""
                  /\ datewiseRow.time_to = ""
                  /\ StatusFrom(2)

(* the row Biochemistry, 09:00-10:00, Present was pushed *)
C27_Witness ==
    /\ datewiseRow.pushed
    /\ Len(tr.tds) = 3
    /\ tr.tds[2].text = "09:00-10:00"
    /\ datewiseRow =
          [ subject |-> "Biochemistry", time_from |-> "09:00",
            time_to |-> "10:00", attendance |-> "Present", pushed |-> TRUE ]

----------------------------------------------------------------------------
(* texts that consist of punctuation only *)
PunctuationOnly(s) == s \in { "-", "--", ".." }

(* texts in upper case of more than ten characters *)
LongAllUpperCase(s) == s \in { "ANATOMY PRACTICAL" }

(* C28: every pushed row has a non-empty subject that is not header-like:
   not a long all-uppercase string, not one containing the word subject,
   not one of punctuation only *)
C28_SubjectNotHeaderLike ==
    datewiseRow.pushed =>
        /\ datewiseRow.subject # ""
        /\ ~LongAllUpperCase(datewiseRow.subject)
        /\ datewiseRow.subject # "Subject Name"
        /\ ~PunctuationOnly(datewiseRow.subject)

(* C29: every pushed row has the status Present, Absent or Unknown *)
C29_StatusInEnum ==
    datewiseRow.pushed =>
        datewiseRow.attendance \in { "Present", "Absent", "Unknown" }

(* the status cell of the row *)
StatusCell ==
    tr.tds[IF Len(tr.tds) >= 4 THEN 4 ELSE Len(tr.tds)]

(* C30: a status cell without a present/absent word that holds a percentage
   gives Present from 75% on and Absent for a low percentage; a cell with
   no text and only a canvas or chart placeholder gives Present *)
C30_PercentAndPlaceholder ==
    datewiseRow.pushed =>
        /\ (StatusCell.text = "80%" /\ StatusCell.html = "text") =>
              datewiseRow.attendance = "Present"
        /\ (StatusCell.text = "40%" /\ StatusCell.html = "text") =>
              datewiseRow.attendance = "Absent"
        /\ (StatusCell.text = "" /\ StatusCell.html \in { "canvas", "chart" }) =>
              datewiseRow.attendance = "Present"

----------------------------------------------------------------------------
\* the rows of a table that are neither under its <thead> nor made of <th>
DataTrs(table) == { i \in 1..Len(table.trs) : ~table.trs[i].th }

NoData ==
    \/ parsedHtml \in Falsy
    \/ \A i \in 1..Len(parsedDoc.tables) : DataTrs(parsedDoc.tables[i]) = {}

(* C31: parseDatewiseAttendanceRows returns a list and does not throw; for
   html that is undefined, null or empty, for a document without a table,
   and for a document whose tables have no data row, the list is empty. *)
C31_NoDataIsEmptyList ==
    ppc = "done" =>
        /\ ~parsedRows.threw
        /\ parsedRows.rows \in Seq([ subject : STRING, time_from : STRING,
                                      time_to : STRING, attendance : STRING,
                                      pushed : { TRUE } ])
        /\ NoData => parsedRows.rows = << >>

\* a document whose only table has a <thead> with a row of cells and a
\* <tbody> with a row of <th> that also holds two cells
C31_Witness ==
    /\ ppc = "done"
    /\ parsedHtml = "document"
    /\ Len(parsedDoc.tables) = 1
    /\ parsedDoc.tables[1].tbody
    /\ parsedDoc.tables[1].headTrs # << >>
    /\ Len(parsedDoc.tables[1].trs) = 1
    /\ parsedDoc.tables[1].trs[1].th
    /\ parsedRows = Parsed(<< >>)

----------------------------------------------------------------------------
(* C32: for every browser of the pool, pageCount equals the number of
   leases acquireBrowser handed out on it that have not been released. *)
C32_PageCountIsLeases ==
    \A i \in 1..Len(browserPool) :
        browserPool[i].pageCount = LeasesOn(browserPool[i].id)

----------------------------------------------------------------------------
\* the task t is handed a lease by the step
Leased(t) == pc[t] # "running" /\ pc'[t] = "running"

(* C33: acquireBrowser hands out no lease on a browser on which
   recycleBrowser has called browser.close() before. *)
C33_NoLeaseOnClosing ==
    [][ \A t \in Tasks : Leased(t) => lease'[t] \notin BeingClosed ]_vars

----------------------------------------------------------------------------
\* the requests whose direct fallback has a browser open
DirectBrowsers == { t \in Tasks : directOpen[t] }

(* C34: the browsers open at one time, those of the pool and those
   launched by the direct fallback of the requests, are at most
   MAX_BROWSERS. *)
C34_TotalBrowserCap ==
    Cardinality(activeBrowsers) + Cardinality(DirectBrowsers) <= MAX_BROWSERS

----------------------------------------------------------------------------
(* C35: the promise of every call of withBrowser settles in the end. *)
C35_EverySettles ==
    \A t \in 1..LiveTasks : (pc[t] # "new") ~> (pc[t] = "done")

----------------------------------------------------------------------------
\* the login requests whose job for u is running
RunningJobs(u) ==
    { r \in Logins : loginUser[r] = u
                      /\ lpc[r] \in { "scraping", "deleting", "inserting", "snapshot" } }

(* C36: for each username at most one scrape job started by POST
   /api/login runs at a time, the status of the username says running
   exactly while one runs, and the flag of a job that has ended, with or
   without error, is false. *)
C36_OneJobPerUser ==
    /\ \A u \in LoginUsers :
          /\ Cardinality(RunningJobs(u)) <= 1
          /\ RunningJobs(u) # {} <=>
                (scrapingStatus[u] # 0 /\ statusRunning[scrapingStatus[u]])
    /\ \A r \in Logins :
          statusRunning[r] <=> r \in RunningJobs(loginUser[r])

\* a login was answered while the job of an earlier one was running; that job
\* failed, and a third login of the user started the next job
C36_Witness ==
    \E a, b, c \in Logins :
        /\ loginUser[a] = "u1" /\ loginUser[b] = "u1" /\ loginUser[c] = "u1"
        /\ lpc[a] = "ended" /\ jobError[a]
        /\ lpc[b] = "answered"
        /\ c \in RunningJobs("u1")

----------------------------------------------------------------------------
(* C37: once the scrape job of a user has completed without error, GET
   /api/attendance of the user answers 200, with the stored rows or with
   an empty list, and not 202.  (The request is made after the job has
   ended and no job of the user is started while it is served.) *)
C37_CompletedGives200 ==
    ( /\ gpc = "done"
      /\ getReq.okBefore
      /\ JobsStarted(getReq.user) = getReq.started )
    => getReq.status = 200

----------------------------------------------------------------------------
\* the call t is made by the step and answered from the cache at once
AnsweredByCache(t) == req[t] = NoReq /\ req'[t] # NoReq /\ sres'[t] = "ok"

(* C38: a call of scrapeDatewiseAttendance made with a password that the
   LMS rejects is not given the rows that a call with the accepted
   password scraped. *)
C38_RowsNeedPassword ==
    [][ \A t \in Tasks :
          (AnsweredByCache(t) /\ req'[t].password = "wrong")
          => GetCached(cache, req'[t].username, req'[t].dateToFetch).password
                # "right" ]_vars

----------------------------------------------------------------------------
(* C39: for 0 <= present <= total, the closed form computeRequiredSessions
   of the dashboard gives the number the backend's computeRequired gives:
   the record the predictor makes carries the number computeRequired has
   for its counts, which for no leave is the number of the server's record *)
C39_SameRequired ==
    (predicted.made /\ predicted.present <= predicted.total) =>
        /\ predicted.required = computeRequired(predicted.present, predicted.total)
        /\ predicted.leave = 0 => predicted.required = processed.required

----------------------------------------------------------------------------
\* 1 + 2 + ... + n
SumTo(n) == (n * (n + 1)) \div 2

\* the call is over
PollOver == pollPc = "done"

\* the call made every request it may make and none of them ended it
TriesExhausted ==
    /\ PollOver
    /\ pollReturn = "fallback"
    /\ ~earlyNetworkFail
    /\ fetches = MAX_TRIES

(* C40 as stated: a call of fetchAttendance makes at most MAX_TRIES
   requests, is over at once after 401, 402 or a network failure, ends with
   loading false, and a call that made all its requests has waited
   2 s + 4 s + ... + 20 s = 110 s *)
C40_PollingAsStated ==
    /\ fetches <= MAX_TRIES
    /\ PollOver => ~loading
    /\ earlyNetworkFail => pollPc \in { "sample", "done" }
    /\ TriesExhausted => waitedMs = INTERVAL_MS * SumTo(MAX_TRIES)

\* the requests and the waits of a call: request k follows a wait of
\* (k - 1) * 2 s, and there is no wait after the last request
PollBounded ==
    /\ fetches = attempt
    /\ fetches <= MAX_TRIES
    /\ pollPc = "waiting" => attempt < MAX_TRIES
    /\ pollPc # "idle" /\ attempt > 0 => waitedMs = INTERVAL_MS * SumTo(attempt - 1)
    /\ waitedMs <= INTERVAL_MS * SumTo(MAX_TRIES - 1)
    /\ earlyNetworkFail => pollPc \in { "sample", "done" }
    /\ pollReturn = "unauthorized" => PollOver
    /\ PollOver => ~loading

(* C40 amended: every call of fetchAttendance ends, with loading false; it
   makes at most MAX_TRIES = 10 requests, waits (k - 1) * 2 s before request
   k (2 s, 4 s, ..., 18 s, 90 s in all: no wait follows the last request),
   and makes no further request after 401, 402 or a network failure whose
   message it knows *)
C40_PollingTerminates ==
    /\ []PollBounded
    /\ [][ (pollReturn' = "unauthorized" \/ earlyNetworkFail') =>
              (fetches' = fetches \/ pollPc = "done") ]_vars
    /\ (pollPc \in { "fetching", "waiting", "sample" }) ~> (PollOver /\ ~loading)

(* a call whose ten requests were all answered 202 ends with the sample
   data after 90 s of waiting *)
C40_Witness ==
    /\ TriesExhausted
    /\ lastErr = "Attendance pending, retrying"
    /\ waitedMs = INTERVAL_MS * SumTo(MAX_TRIES - 1)
    /\ isFallback /\ ~loading

====
